---- MODULE Spec2Model ----
(***************************************************************************)
(* Model of the mapcreator boundary-layer pipeline: the per-country        *)
(* replacement steps, smart_island_cull, the country-code cascade of       *)
(* main(), and the order in which main() runs them.                        *)
(*                                                                         *)
(* Data representation.                                                    *)
(*  - A Python str is a sequence of one-character strings, so that upper, *)
(*    strip, split and isalpha/isupper are computed character by character.*)
(*  - None/NaN is the value NULL.                                          *)
(*  - A geometry is a set of parts (the polygons of a multipolygon); a     *)
(*    part carries its equal-area size in km2 and whether it intersects a  *)
(*    whitelist point.  Every feature that reaches the cull has at least   *)
(*    one part and a finite area.                                          *)
(*  - A layer (GeoDataFrame) is a sequence of feature records.             *)
(***************************************************************************)
EXTENDS Integers, Sequences, FiniteSets, TLC

VARIABLES
    pc,             \* position in main() / in the function under test
    hybrid,         \* the political layer being built (main: hybrid)
    main_gdf,       \* argument of the last replacement step
    repl,           \* step name -> normalised replacement rows it merged in
    step,           \* name of the last replacement step that ran
    outcome,        \* how the last step ended: ok / skipped / exit / error
    has_cntr_code,  \* "cntr_code" in hybrid.columns
    has_group_col,  \* group_col in gdf.columns (smart_island_cull)
    area_raises,    \* to_crs/area computation of the cull raises
    vip_raises,     \* whitelist intersection test of the cull raises
    culled,         \* threshold_km2 -> layer returned by smart_island_cull
    final_hybrid,   \* main: final_hybrid
    log,            \* set of diagnostics printed so far
    order,          \* sequence of replacement steps started, in order
    datasets,       \* step name -> dataset its fetch returned (calls on their own)
    start,          \* layer handed to the first of several calls on their own
    files,          \* output artifacts written to disk so far
    political,      \* layer build_topology received as political
    topo_in,        \* the other candidate layers and what tp.Topology returns
    topo,           \* what build_topology did: status, artifact written
    hier_in,        \* the layers read by one hierarchy builder
    groups,         \* the groups a hierarchy builder returned
    labels,         \* the labels a hierarchy builder returned
    arg,            \* argument of a helper function called on its own
    ret             \* what that call returned or has done so far

vars == <<pc, hybrid, main_gdf, repl, step, outcome, has_cntr_code,
          has_group_col, area_raises, vip_raises, culled, final_hybrid,
          log, order, datasets, start, files, political, topo_in, topo,
          hier_in, groups, labels, arg, ret>>

\* what only the calls of the steps on their own record
callVars == <<datasets, start>>

\* what save_outputs, build_topology and the two tools leave behind
outVars == <<files, political, topo_in, topo>>

-----------------------------------------------------------------------------
(* Bounds of the model *)
MaxBase == 2        \* features of a base layer
MaxParts == 2       \* parts of a feature handed to the cull on its own
MaxChildren == 2    \* child rows read by a hierarchy builder
MaxIdLen == 6       \* characters of an id handed to extract_country_code

(* Program constants *)
URAL_LONGITUDE == 60
PL_MAX_AREA == 2
CN_MAX_AREA == 50
CULL_THRESHOLD == 1000

-----------------------------------------------------------------------------
(* Python strings *)
NULL == <<"<null>">>

UpperAlphabet == <<"A","B","C","D","E","F","G","H","I","J","K","L","M",
                   "N","O","P","Q","R","S","T","U","V","W","X","Y","Z">>
LowerAlphabet == <<"a","b","c","d","e","f","g","h","i","j","k","l","m",
                   "n","o","p","q","r","s","t","u","v","w","x","y","z">>

IsUpperChar(c) == \E i \in 1..26 : UpperAlphabet[i] = c
IsLowerChar(c) == \E i \in 1..26 : LowerAlphabet[i] = c

CharUpper(c) ==
    IF IsLowerChar(c)
    THEN UpperAlphabet[CHOOSE i \in 1..26 : LowerAlphabet[i] = c]
    ELSE c

\* str.upper()
Upper(s) == [i \in 1..Len(s) |-> CharUpper(s[i])]

\* str.isalpha(): non-empty and every character a letter
IsAlpha(s) == Len(s) > 0 /\ \A i \in 1..Len(s) : IsUpperChar(s[i]) \/ IsLowerChar(s[i])

\* str.isupper(): at least one cased character and no lower-case one
IsUpper(s) ==
    /\ \E i \in 1..Len(s) : IsUpperChar(s[i])
    /\ \A i \in 1..Len(s) : ~IsLowerChar(s[i])

RECURSIVE LStrip(_)
LStrip(s) == IF s # <<>> /\ Head(s) = " " THEN LStrip(Tail(s)) ELSE s

RECURSIVE RStrip(_)
RStrip(s) ==
    IF s # <<>> /\ s[Len(s)] = " " THEN RStrip(SubSeq(s, 1, Len(s) - 1)) ELSE s

\* str.strip()
Strip(s) == RStrip(LStrip(s))

\* Series.astype(str): a missing value becomes the text "nan"
AsStr(v) == IF v = NULL THEN <<"n","a","n">> ELSE v

\* Series.fillna("")
FillNa(v) == IF v = NULL THEN <<>> ELSE v

\* str.replace("shi", "", regex=False)
RECURSIVE ReplaceShi(_)
ReplaceShi(s) ==
    IF Len(s) < 3 THEN s
    ELSE IF SubSeq(s, 1, 3) = <<"s","h","i">>
         THEN ReplaceShi(SubSeq(s, 4, Len(s)))
         ELSE <<Head(s)>> \o ReplaceShi(Tail(s))

\* str.split("_")
RECURSIVE SplitUnderscore(_, _)
SplitUnderscore(s, cur) ==
    IF s = <<>> THEN <<cur>>
    ELSE IF Head(s) = "_"
         THEN <<cur>> \o SplitUnderscore(Tail(s), <<>>)
         ELSE SplitUnderscore(Tail(s), Append(cur, Head(s)))

-----------------------------------------------------------------------------
(* Layers *)
Range(s) == {s[i] : i \in 1..Len(s)}

Ids(layer) == {layer[i].id : i \in 1..Len(layer)}

IdsUnique(layer) ==
    \A i, j \in 1..Len(layer) : layer[i].id = layer[j].id => i = j

\* number of rows of the layer equal to the feature f
Count(layer, f) == Cardinality({i \in 1..Len(layer) : layer[i] = f})

\* main_gdf[main_gdf["cntr_code"].astype(str).str.upper() != C]
ExcludeCountryCaseSensitive(layer, codes) ==
    SelectSeq(layer, LAMBDA f : AsStr(f.cntr_code) \notin codes)

ExcludeCountry(layer, codes) ==
    SelectSeq(layer, LAMBDA f : Upper(AsStr(f.cntr_code)) \notin codes)

\* main_gdf[main_gdf["cntr_code"].astype(str).str.upper() == C]
OnlyCountry(layer, code) ==
    SelectSeq(layer, LAMBDA f : Upper(AsStr(f.cntr_code)) = code)

Feature(id, name, code, lon, parts) ==
    [id |-> id, name |-> name, cntr_code |-> code, lon |-> lon, parts |-> parts]

Part(pid, km2, vip) == [pid |-> pid, km2 |-> km2, vip |-> vip]

-----------------------------------------------------------------------------
(* Replacement datasets as delivered by fetch_or_load_geojson.  A row is a *)
(* raw record: key is the id-like column, name the name-like column, lon   *)
(* and lat the representative point, deg2 the area in square degrees,      *)
(* geom the state of the geometry (ok / null / empty / invalid), in_bounds *)
(* whether it survives a bounding-box clip, over the parts of other        *)
(* features that cover it entirely.                                        *)
Row(key, name, lon, lat, deg2, geom, in_bounds, parts, over) ==
    [key |-> key, name |-> name, lon |-> lon, lat |-> lat, deg2 |-> deg2,
     geom |-> geom, in_bounds |-> in_bounds, parts |-> parts, over |-> over]

Dataset(rows, cols_ok, make_valid_raises, clip_raises) ==
    [rows |-> rows, cols_ok |-> cols_ok,
     make_valid_raises |-> make_valid_raises, clip_raises |-> clip_raises]

StepResult(status, layer, rows, msgs) ==
    [status |-> status, layer |-> layer, repl |-> rows, log |-> msgs]

\* the id / name / cntr_code assignments of a replacement step
Normalise(rows, prefix, code) ==
    [i \in 1..Len(rows) |->
        Feature(prefix \o AsStr(rows[i].key), AsStr(rows[i].name), code,
                rows[i].lon, rows[i].parts)]

\* GeoSeries.make_valid(): repairs invalid geometries unless it raises
MakeValid(ds) ==
    IF ds.make_valid_raises THEN ds.rows
    ELSE [i \in 1..Len(ds.rows) |->
            IF ds.rows[i].geom = "invalid"
            THEN [ds.rows[i] EXCEPT !.geom = "ok"] ELSE ds.rows[i]]

\* gpd.clip(gdf, bbox): rows outside the box are dropped
Clip(rows) == SelectSeq(rows, LAMBDA r : r.in_bounds)

\* clip_to_europe_bounds: clip, on failure repair and clip once more, keep
\* the unclipped rows when the clip still fails or returns nothing
ClipToEuropeBounds(rows, clip_raises) ==
    IF clip_raises >= 2 THEN rows
    ELSE IF Clip(rows) = <<>> THEN rows ELSE Clip(rows)

FR_PREFIX == <<"F","R","_","A","R","R","_">>
PL_PREFIX == <<"P","L","_","P","O","W","_">>
CN_PREFIX == <<"C","N","_","C","I","T","Y","_">>
RU_PREFIX == <<"R","U","_","R","A","Y","_">>
UA_PREFIX == <<"U","A","_","R","A","Y","_">>
IN_PREFIX == <<"I","N","_","A","D","M","2","_">>

S_FR == <<"F","R">>
S_PL == <<"P","L">>
S_CN == <<"C","N">>
S_RU == <<"R","U">>
S_UA == <<"U","A">>
S_IN == <<"I","N">>
S_DE == <<"D","E">>

\* apply_holistic_replacements
ApplyFrance(gdf, hasCol, ds) ==
    IF gdf = <<>> THEN StepResult("skipped", gdf, <<>>, {})
    ELSE IF ~hasCol THEN StepResult("skipped", gdf, <<>>, {"[Holistic] cntr_code missing"})
    ELSE IF ds.rows = <<>> THEN StepResult("exit", gdf, <<>>, {"Arrondissements GeoDataFrame is empty."})
    ELSE IF ~ds.cols_ok THEN StepResult("exit", gdf, <<>>, {"Arrondissements dataset missing expected columns"})
    ELSE LET base == ExcludeCountry(gdf, {S_FR})
             fr_gdf == Normalise(ds.rows, FR_PREFIX, S_FR)
         IN  StepResult("ok", base \o fr_gdf, fr_gdf, {})

\* a Poland step that removes the FR features of the layer as well
ApplyPolandDropsFrance(gdf, hasCol, ds) ==
    IF gdf = <<>> THEN StepResult("skipped", gdf, <<>>, {})
    ELSE IF ~hasCol THEN StepResult("skipped", gdf, <<>>, {"[Poland] cntr_code missing"})
    ELSE IF ds.rows = <<>> THEN StepResult("exit", gdf, <<>>, {"Powiaty GeoDataFrame is empty."})
    ELSE LET base == ExcludeCountry(gdf, {S_PL, S_FR})
             valid == SelectSeq(MakeValid(ds), LAMBDA r : r.geom = "ok")
             small == SelectSeq(valid, LAMBDA r : r.deg2 < PL_MAX_AREA)
             pl_gdf == Normalise(small, PL_PREFIX, S_PL)
         IN  IF ~ds.cols_ok
             THEN StepResult("error", gdf, <<>>, {"Poland counties dataset missing expected columns"})
             ELSE StepResult("ok", base \o pl_gdf, pl_gdf, {})

\* apply_poland_replacement
ApplyPoland(gdf, hasCol, ds) ==
    IF gdf = <<>> THEN StepResult("skipped", gdf, <<>>, {})
    ELSE IF ~hasCol THEN StepResult("skipped", gdf, <<>>, {"[Poland] cntr_code missing"})
    ELSE IF ds.rows = <<>> THEN StepResult("exit", gdf, <<>>, {"Powiaty GeoDataFrame is empty."})
    ELSE LET base == ExcludeCountry(gdf, {S_PL})
             valid == SelectSeq(MakeValid(ds), LAMBDA r : r.geom = "ok")
             small == SelectSeq(valid, LAMBDA r : r.deg2 < PL_MAX_AREA)
             pl_gdf == Normalise(small, PL_PREFIX, S_PL)
         IN  IF ~ds.cols_ok
             THEN StepResult("error", gdf, <<>>, {"Poland counties dataset missing expected columns"})
             ELSE StepResult("ok", base \o pl_gdf, pl_gdf, {})

\* a China step that leaves the base CN features in the layer
ApplyChinaKeepBase(gdf, hasCol, ds) ==
    IF gdf = <<>> THEN StepResult("skipped", gdf, <<>>, {})
    ELSE IF ~hasCol THEN StepResult("skipped", gdf, <<>>, {"[China] cntr_code missing"})
    ELSE IF ds.rows = <<>> THEN StepResult("exit", gdf, <<>>, {"China city GeoDataFrame is empty."})
    ELSE IF ~ds.cols_ok
    THEN StepResult("error", gdf, <<>>, {"China dataset missing expected columns"})
    ELSE LET base == gdf
             present == SelectSeq(MakeValid(ds), LAMBDA r : r.geom \notin {"null", "empty"})
             clipped == ClipToEuropeBounds(present, ds.clip_raises)
             small == SelectSeq(clipped, LAMBDA r : r.deg2 < CN_MAX_AREA)
             named == [i \in 1..Len(small) |->
                         [small[i] EXCEPT !.name = Strip(ReplaceShi(AsStr(small[i].name)))]]
             cn_gdf == Normalise(named, CN_PREFIX, S_CN)
         IN  StepResult("ok", base \o cn_gdf, cn_gdf, {})

\* apply_china_replacement
ApplyChina(gdf, hasCol, ds) ==
    IF gdf = <<>> THEN StepResult("skipped", gdf, <<>>, {})
    ELSE IF ~hasCol THEN StepResult("skipped", gdf, <<>>, {"[China] cntr_code missing"})
    ELSE IF ds.rows = <<>> THEN StepResult("exit", gdf, <<>>, {"China city GeoDataFrame is empty."})
    ELSE IF ~ds.cols_ok
    THEN StepResult("error", gdf, <<>>, {"China dataset missing expected columns"})
    ELSE LET base == ExcludeCountry(gdf, {S_CN})
             present == SelectSeq(MakeValid(ds), LAMBDA r : r.geom \notin {"null", "empty"})
             clipped == ClipToEuropeBounds(present, ds.clip_raises)
             small == SelectSeq(clipped, LAMBDA r : r.deg2 < CN_MAX_AREA)
             named == [i \in 1..Len(small) |->
                         [small[i] EXCEPT !.name = Strip(ReplaceShi(AsStr(small[i].name)))]]
             cn_gdf == Normalise(named, CN_PREFIX, S_CN)
         IN  StepResult("ok", base \o cn_gdf, cn_gdf, {})

\* a Russia/Ukraine step that merges the whole ADM2 dataset, east included
ApplyRussiaUkraineNoSeam(gdf, hasCol, ds) ==
    IF gdf = <<>> THEN StepResult("skipped", gdf, <<>>, {})
    ELSE IF ~hasCol THEN StepResult("skipped", gdf, <<>>, {"[RU/UA] cntr_code missing"})
    ELSE IF ds.ru.rows = <<>> THEN StepResult("exit", gdf, <<>>, {"Russia ADM2 GeoDataFrame is empty."})
    ELSE IF ~ds.ru.cols_ok
    THEN StepResult("error", gdf, <<>>, {"Russia ADM2 dataset missing expected columns"})
    ELSE IF ds.ua.rows = <<>> THEN StepResult("exit", gdf, <<>>, {"Ukraine ADM2 GeoDataFrame is empty."})
    ELSE IF ~ds.ua.cols_ok
    THEN StepResult("error", gdf, <<>>, {"Ukraine ADM2 dataset missing expected columns"})
    ELSE LET base == ExcludeCountry(gdf, {S_RU, S_UA})
             ru_east == SelectSeq(OnlyCountry(gdf, S_RU),
                                  LAMBDA f : f.lon >= URAL_LONGITUDE)
             ru_clip == IF ds.ru.clip_raises >= 1 THEN ds.ru.rows ELSE Clip(ds.ru.rows)
             ru_west == ru_clip
             ru_gdf == Normalise(ru_west, RU_PREFIX, S_RU)
             ua_gdf == Normalise(ds.ua.rows, UA_PREFIX, S_UA)
         IN  StepResult("ok", base \o ru_east \o ru_gdf \o ua_gdf, ru_gdf \o ua_gdf,
                        IF ds.ru.clip_raises >= 1 THEN {"RU ADM2 clip failed"} ELSE {})

\* apply_russia_ukraine_replacement; ds.ru and ds.ua are the two datasets
ApplyRussiaUkraine(gdf, hasCol, ds) ==
    IF gdf = <<>> THEN StepResult("skipped", gdf, <<>>, {})
    ELSE IF ~hasCol THEN StepResult("skipped", gdf, <<>>, {"[RU/UA] cntr_code missing"})
    ELSE IF ds.ru.rows = <<>> THEN StepResult("exit", gdf, <<>>, {"Russia ADM2 GeoDataFrame is empty."})
    ELSE IF ~ds.ru.cols_ok
    THEN StepResult("error", gdf, <<>>, {"Russia ADM2 dataset missing expected columns"})
    ELSE IF ds.ua.rows = <<>> THEN StepResult("exit", gdf, <<>>, {"Ukraine ADM2 GeoDataFrame is empty."})
    ELSE IF ~ds.ua.cols_ok
    THEN StepResult("error", gdf, <<>>, {"Ukraine ADM2 dataset missing expected columns"})
    ELSE LET base == ExcludeCountry(gdf, {S_RU, S_UA})
             ru_east == SelectSeq(OnlyCountry(gdf, S_RU),
                                  LAMBDA f : f.lon >= URAL_LONGITUDE)
             ru_clip == IF ds.ru.clip_raises >= 1 THEN ds.ru.rows ELSE Clip(ds.ru.rows)
             ru_west == SelectSeq(ru_clip, LAMBDA r : r.lon < URAL_LONGITUDE)
             ru_gdf == Normalise(ru_west, RU_PREFIX, S_RU)
             ua_gdf == Normalise(ds.ua.rows, UA_PREFIX, S_UA)
         IN  StepResult("ok", base \o ru_east \o ru_gdf \o ua_gdf, ru_gdf \o ua_gdf,
                        IF ds.ru.clip_raises >= 1 THEN {"RU ADM2 clip failed"} ELSE {})

-----------------------------------------------------------------------------
(* smart_island_cull *)

\* code-point order of the characters the model uses
CharOrder == <<" ","-","0","1","2","3","4","5","6","7","8","9">>
             \o UpperAlphabet \o <<"_">> \o LowerAlphabet

Ord(c) == CHOOSE i \in 1..Len(CharOrder) : CharOrder[i] = c

\* s < t for Python strings
RECURSIVE StrLess(_, _)
StrLess(s, t) ==
    IF t = <<>> THEN FALSE
    ELSE IF s = <<>> THEN TRUE
    ELSE IF Head(s) = Head(t) THEN StrLess(Tail(s), Tail(t))
    ELSE Ord(Head(s)) < Ord(Head(t))

\* the sequence of the elements of a set of strings, in increasing order
RECURSIVE SortedIds(_)
SortedIds(S) ==
    IF S = {} THEN <<>>
    ELSE LET m == CHOOSE x \in S : \A y \in S \ {x} : StrLess(x, y)
         IN  <<m>> \o SortedIds(S \ {m})

\* the sequence of the parts of a geometry, in the order of the multipolygon
RECURSIVE PartSeq(_)
PartSeq(P) ==
    IF P = {} THEN <<>>
    ELSE LET m == CHOOSE x \in P : \A y \in P : x.pid <= y.pid
         IN  <<m>> \o PartSeq(P \ {m})

\* gdf.explode(index_parts=False, ignore_index=True): one row per part
RECURSIVE Explode(_)
Explode(gdf) ==
    IF gdf = <<>> THEN <<>>
    ELSE LET f == Head(gdf)
             ps == PartSeq(f.parts)
         IN  [i \in 1..Len(ps) |-> [f EXCEPT !.parts = {ps[i]}]]
             \o Explode(Tail(gdf))

\* the single part carried by an exploded row
RowPart(r) == CHOOSE p \in r.parts : TRUE

\* a cull without the protection of the largest part of a group
LargestKeepOff(exploded, r, hasGroupCol) == FALSE

\* exploded.groupby(group_col)["area_km2"].transform("max") == area_km2
LargestKeep(exploded, r, hasGroupCol) ==
    /\ hasGroupCol
    /\ \A i \in 1..Len(exploded) :
          exploded[i].id = r.id => RowPart(exploded[i]).km2 <= RowPart(r).km2

\* the whitelist column: False everywhere when the test raised
VipKeep(r, vipRaises) == ~vipRaises /\ RowPart(r).vip

\* a cull that compares every part with the threshold, the largest included
KeepNoLargest(exploded, r, hasGroupCol, threshold, vipRaises) ==
    \/ VipKeep(r, vipRaises)
    \/ RowPart(r).km2 >= threshold

\* exploded["keep"]
Keep(exploded, r, hasGroupCol, threshold, vipRaises) ==
    \/ LargestKeep(exploded, r, hasGroupCol)
    \/ VipKeep(r, vipRaises)
    \/ RowPart(r).km2 >= threshold

\* aggfunc "first": the first non-null value of the column in the group
FirstNonNull(rows, col) ==
    IF \E i \in 1..Len(rows) : rows[i][col] # NULL
    THEN rows[CHOOSE i \in 1..Len(rows) :
                /\ rows[i][col] # NULL
                /\ \A j \in 1..(i - 1) : rows[j][col] = NULL][col]
    ELSE NULL

\* filtered.dissolve(by=group_col, aggfunc=first).reset_index()
Dissolve(filtered) ==
    LET keys == SortedIds(Ids(filtered))
    IN  [k \in 1..Len(keys) |->
            LET rows == SelectSeq(filtered, LAMBDA r : r.id = keys[k])
            IN  [id |-> keys[k],
                 name |-> FirstNonNull(rows, "name"),
                 cntr_code |-> FirstNonNull(rows, "cntr_code"),
                 lon |-> rows[1].lon,
                 parts |-> {RowPart(rows[i]) : i \in 1..Len(rows)}]]

\* the layer returned by smart_island_cull and the diagnostics it prints
SmartIslandCull(gdf, hasGroupCol, threshold, areaRaises, vipRaises) ==
    LET exploded == Explode(gdf)
        filtered == SelectSeq(exploded,
                        LAMBDA r : Keep(exploded, r, hasGroupCol, threshold, vipRaises))
        vipLog == IF vipRaises THEN {"Smart cull VIP check failed"} ELSE {}
    IN  IF gdf = <<>> \/ exploded = <<>> THEN [layer |-> gdf, log |-> {}]
        ELSE IF areaRaises
        THEN [layer |-> gdf, log |-> {"Smart cull area calc failed"}]
        ELSE IF filtered = <<>>
        THEN [layer |-> gdf, log |-> vipLog \cup {"Smart cull removed all geometries"}]
        ELSE IF hasGroupCol
        THEN [layer |-> Dissolve(filtered), log |-> vipLog]
        ELSE [layer |-> filtered, log |-> vipLog]

\* the parts present in a layer
PartsOf(layer) == UNION {layer[i].parts : i \in 1..Len(layer)}

-----------------------------------------------------------------------------
(* apply_south_asia_replacement.  The adm1_name column it adds is not      *)
(* modelled.                                                               *)

\* keep_mask of the Andaman/Nicobar and Lakshadweep cull
MainlandIndia(r) ==
    /\ ~(r.lon > 88 /\ r.lat < 15)
    /\ ~(r.lon < 75 /\ r.lat < 14)

\* geom.difference(china_geom): nothing is left of a row that a part of
\* china_geom covers; the difference is skipped when it raises
DifferenceChina(rows, china_geom, diff_raises) ==
    IF china_geom = {} \/ diff_raises THEN rows
    ELSE [i \in 1..Len(rows) |->
            IF rows[i].over \cap {p.pid : p \in china_geom} # {}
            THEN [rows[i] EXCEPT !.geom = "empty", !.parts = {}]
            ELSE rows[i]]

ApplySouthAsia(gdf, hasCol, ds) ==
    IF gdf = <<>> THEN StepResult("skipped", gdf, <<>>, {})
    ELSE IF ~hasCol THEN StepResult("skipped", gdf, <<>>, {"[South Asia] cntr_code missing"})
    ELSE IF ds.rows = <<>> THEN StepResult("exit", gdf, <<>>, {"India ADM2 GeoDataFrame is empty."})
    ELSE IF ~ds.cols_ok
    THEN StepResult("error", gdf, <<>>, {"India ADM2 dataset missing expected columns"})
    ELSE LET base == ExcludeCountry(gdf, {S_IN})
             mainland == SelectSeq(ds.rows, MainlandIndia)
             china_geom == PartsOf(OnlyCountry(gdf, S_CN))
             diff_raises == ds.clip_raises >= 1
             cut == DifferenceChina(mainland, china_geom, diff_raises)
             present == SelectSeq(cut, LAMBDA r : r.geom \notin {"null", "empty"})
             ind_gdf == Normalise(present, IN_PREFIX, S_IN)
         IN  StepResult("ok", base \o ind_gdf, ind_gdf,
                        IF china_geom # {} /\ diff_raises
                        THEN {"[South Asia] China clip failed"} ELSE {})

-----------------------------------------------------------------------------
(* Country-code cascade of main() *)

\* extract_country_code
TwoUpperLetters(t) == Len(t) = 2 /\ IsAlpha(t) /\ IsUpper(t)

\* the two-character prefix tried before the underscore-delimited tokens
extract_country_code_prefix_first(id_val) ==
    LET s == AsStr(id_val)
        tokens == SplitUnderscore(s, <<>>)
        hit == {i \in 1..Len(tokens) : TwoUpperLetters(tokens[i])}
        prefix == SubSeq(s, 1, IF Len(s) < 2 THEN Len(s) ELSE 2)
    IN  IF TwoUpperLetters(prefix) THEN prefix
        ELSE IF hit # {} THEN tokens[CHOOSE i \in hit : \A j \in hit : i <= j]
        ELSE <<>>

extract_country_code(id_val) ==
    LET s == AsStr(id_val)
        tokens == SplitUnderscore(s, <<>>)
        hit == {i \in 1..Len(tokens) : TwoUpperLetters(tokens[i])}
        prefix == SubSeq(s, 1, IF Len(s) < 2 THEN Len(s) ELSE 2)
    IN  IF (\E i \in 1..Len(s) : s[i] = "_") /\ hit # {}
        THEN tokens[CHOOSE i \in hit : \A j \in hit : i <= j]
        ELSE IF TwoUpperLetters(prefix) THEN prefix ELSE <<>>

\* x.fillna("").astype(str).str.strip(), then "" -> None
BlankToNull(v) ==
    LET t == Strip(AsStr(FillNa(v))) IN IF t = <<>> THEN NULL ELSE t

\* x.fillna("").astype(str).str.strip().str.upper(), then "" -> None
FinalCodeKeepEmpty(v) == Upper(Strip(AsStr(FillNa(v))))

FinalCode(v) ==
    LET t == Upper(Strip(AsStr(FillNa(v)))) IN IF t = <<>> THEN NULL ELSE t

S_UNKNOWN == <<"-","9","9">>

\* filled.where(~filled.isin(["-99", "", None])).groupby(level=0).first():
\* the first joined code that is not a sentinel, or null
FirstJoined(codes) ==
    LET good == {i \in 1..Len(codes) : codes[i] \notin {S_UNKNOWN, <<>>, NULL}}
    IN  IF good = {} THEN NULL ELSE codes[CHOOSE i \in good : \A j \in good : i <= j]

\* the id heuristic applied to every row, carried code or not
CodesAfterIdRuleEveryRow(layer) ==
    [i \in 1..Len(layer) |->
        [layer[i] EXCEPT !.cntr_code = BlankToNull(extract_country_code(layer[i].id))]]

\* init_map_data.py:1208-1216: clean the carried codes, then the id heuristic
CodesAfterIdRule(layer) ==
    [i \in 1..Len(layer) |->
        LET c1 == BlankToNull(layer[i].cntr_code)
            c2 == IF c1 = NULL THEN extract_country_code(layer[i].id) ELSE c1
        IN  [layer[i] EXCEPT !.cntr_code = BlankToNull(c2)]]

Missing(layer) == {i \in 1..Len(layer) : layer[i].cntr_code = NULL}

\* the join result applied although the column is missing or the join raised
CodesAfterJoinIgnoresFailure(layer, hasIsoCol, joinRaises, matches) ==
    IF Missing(layer) = {} THEN layer
    ELSE [i \in 1..Len(layer) |->
            IF i \in Missing(layer)
            THEN [layer[i] EXCEPT !.cntr_code = FirstJoined(matches[i])]
            ELSE layer[i]]

\* init_map_data.py:1218-1241: spatial join for the rows still missing
CodesAfterJoin(layer, hasIsoCol, joinRaises, matches) ==
    IF Missing(layer) = {} \/ ~hasIsoCol \/ joinRaises THEN layer
    ELSE [i \in 1..Len(layer) |->
            IF i \in Missing(layer)
            THEN [layer[i] EXCEPT !.cntr_code = FirstJoined(matches[i])]
            ELSE layer[i]]

\* init_map_data.py:1208-1250
ResolveCodes(layer, hasIsoCol, joinRaises, matches) ==
    LET joined == CodesAfterJoin(CodesAfterIdRule(layer), hasIsoCol, joinRaises, matches)
    IN  [i \in 1..Len(joined) |->
            [joined[i] EXCEPT !.cntr_code = FinalCode(joined[i].cntr_code)]]

ResolveLog(layer, hasIsoCol, joinRaises) ==
    IF Missing(CodesAfterIdRule(layer)) = {} THEN {}
    ELSE IF ~hasIsoCol THEN {"Borders dataset missing ISO A2 column; spatial join skipped."}
    ELSE IF joinRaises THEN {"Spatial join failed"}
    ELSE {}

-----------------------------------------------------------------------------
(* build_topology.  A candidate layer other than political is given by the *)
(* state has_valid_bounds finds it in after to_crs, prune_columns,         *)
(* scrub_geometry and round_geometries: ok, empty, nonfinite or zero (a    *)
(* bounding box without extent); special_zones may also be absent (None,   *)
(* never a candidate).  tp.Topology(...).to_json() returns text whose      *)
(* numbers are finite, or that holds NaN or Infinity, or it raises.        *)

\* candidates after political, in the order of the list
OTHER_CANDIDATES == <<"special_zones", "ocean", "land", "urban", "physical", "rivers">>

\* prune_columns: the columns of keep_cols that exist, nulls filled with ""
PruneColumns(layer, hasId, hasCode) ==
    LET keep_cols == {"id", "name", "cntr_code"}
        columns == {"name"} \cup (IF hasId THEN {"id"} ELSE {})
                            \cup (IF hasCode THEN {"cntr_code"} ELSE {})
    IN  [i \in 1..Len(layer) |->
            [props |-> [c \in columns \cap keep_cols |-> FillNa(layer[i][c])],
             parts |-> layer[i].parts]]

\* has_valid_bounds without the test of the extent
HasValidBoundsNoExtent(rows, bounds) == rows # <<>> /\ bounds # "nonfinite"

\* has_valid_bounds of the political layer after pruning and scrubbing
HasValidBounds(rows, bounds) == rows # <<>> /\ bounds = "finite"

\* the result of build_topology: status, the artifact written, diagnostics
BuildTopology(layer, hasId, hasCode, tin) ==
    LET \* scrub_geometry: null, empty and invalid geometries are dropped
        rows == SelectSeq(PruneColumns(layer, hasId, hasCode), LAMBDA r : r.parts # {})
        names == <<"political">>
                 \o SelectSeq(OTHER_CANDIDATES, LAMBDA n : tin.others[n] = "ok")
        skipped == {n \in Range(OTHER_CANDIDATES) : tin.others[n] \notin {"ok", "absent"}}
        skipLog == {"Skipping empty/invalid layer: " \o n : n \in skipped}
        \* the second build follows a first one that raised or held NaN
        retries == tin.quantized \in {"raises", "NaN"}
        topo_json == IF retries THEN tin.plain ELSE tin.quantized
        retryLog == IF retries
                    THEN {"TopoJSON build failed with quantization; retrying without quantization"}
                    ELSE {}
        \* the prequantize value of each build_topo call, in call order
        attempts == IF retries THEN <<"quantization", "False">> ELSE <<"quantization">>
        missing == {"id", "cntr_code"} \ DOMAIN rows[1].props
        warnLog == IF missing # {} THEN {"WARNING: TopoJSON missing properties"} ELSE {}
    IN  IF ~HasValidBounds(rows, tin.bounds)
        THEN [status |-> "exit", artifact |-> <<>>, attempts |-> <<>>,
              log |-> {"Political layer is empty or invalid; cannot build topology."}]
        ELSE IF topo_json \in {"raises", "NaN"}
        THEN [status |-> "error", artifact |-> <<>>, attempts |-> attempts,
              log |-> skipLog \cup retryLog]
        ELSE [status |-> "ok", attempts |-> attempts,
              artifact |-> <<[objects |-> names,
                              political |-> rows,
                              numbers |-> topo_json,
                              quantized |-> ~retries]>>,
              log |-> skipLog \cup retryLog \cup warnLog \cup {"TopoJSON saved"}]

\* tp.Topology inputs: the bounds of the scrubbed political layer, the state
\* of each other candidate, the quantized and the unquantized build
TopoIn(bounds, others, quantized, plain) ==
    [bounds |-> bounds, others |-> others, quantized |-> quantized, plain |-> plain]

\* build_topology as main() calls it: no special_zones, the other layers valid
AllOthersOk ==
    [n \in Range(OTHER_CANDIDATES) |-> IF n = "special_zones" THEN "absent" ELSE "ok"]

\* nothing written, build_topology and the hierarchy builders not called
NoOutput ==
    /\ files = {}
    /\ political = <<>>
    /\ topo_in = TopoIn("finite", AllOthersOk, "finite", "finite")
    /\ topo = [status |-> "none", artifact |-> <<>>, attempts |-> <<>>, log |-> {}]
    /\ hier_in = [children |-> <<>>, parents |-> <<>>, nearest_raises |-> FALSE,
                  east |-> {}, powiaty |-> <<>>, arrondissements |-> <<>>]
    /\ groups = <<>>
    /\ labels = <<>>
    /\ arg = <<>>
    /\ ret = <<>>

-----------------------------------------------------------------------------
(* Hierarchy builders (tools/generate_hierarchy.py).  A child row carries   *)
(* its shapeID, the parent rows its centroid lies within and the parent row *)
(* sjoin_nearest returns for it; a parent row carries its name, which may   *)
(* be None or blank.  The name of a child row without a match is NaN.       *)

\* float('nan') in an object column
NAN == <<"<nan>">>

\* str(value)
PyStr(v) ==
    IF v = NULL THEN <<"N","o","n","e">> ELSE IF v = NAN THEN <<"n","a","n">> ELSE v

\* re.sub(r"[^A-Za-z0-9]+", "_", s)
RECURSIVE SubNonAlnum(_, _)
SubNonAlnum(s, inRun) ==
    LET alnum(c) == \/ IsUpperChar(c) \/ IsLowerChar(c)
                    \/ c \in {"0","1","2","3","4","5","6","7","8","9"}
    IN  IF s = <<>> THEN <<>>
        ELSE IF alnum(Head(s)) THEN <<Head(s)>> \o SubNonAlnum(Tail(s), FALSE)
        ELSE (IF inRun THEN <<>> ELSE <<"_">>) \o SubNonAlnum(Tail(s), TRUE)

\* str.strip("_")
RECURSIVE StripUnderscores(_)
StripUnderscores(s) ==
    IF s # <<>> /\ Head(s) = "_" THEN StripUnderscores(Tail(s))
    ELSE IF s # <<>> /\ s[Len(s)] = "_" THEN StripUnderscores(SubSeq(s, 1, Len(s) - 1))
    ELSE s

slugify(text) == StripUnderscores(SubNonAlnum(Strip(PyStr(text)), FALSE))

Child(shapeID, within, nearest) ==
    [shapeID |-> shapeID, within |-> within, nearest |-> nearest]

\* gpd.sjoin(centroids, adm1, how="left", predicate="within"), from child i
\* on: one row per parent the centroid lies within, one row with NaN without
\* any
RECURSIVE SJoinWithin(_, _, _)
SJoinWithin(children, i, parents) ==
    IF i > Len(children) THEN <<>>
    ELSE LET c == children[i]
             hit == SelectSeq([k \in 1..Len(parents) |-> k], LAMBDA k : k \in c.within)
             rows == IF c.within = {}
                     THEN <<[shapeID |-> c.shapeID, name |-> NAN, child |-> i]>>
                     ELSE [r \in 1..Len(hit) |->
                              [shapeID |-> c.shapeID, name |-> parents[hit[r]], child |-> i]]
         IN  rows \o SJoinWithin(children, i + 1, parents)

\* the sjoin_nearest fallback for the rows whose name isna(); an exception in
\* it is swallowed
FillNearest(joined, children, parents, nearestRaises) ==
    LET isna(v) == v \in {NULL, NAN}
    IN  IF (\A r \in 1..Len(joined) : ~isna(joined[r].name)) \/ nearestRaises THEN joined
        ELSE [r \in 1..Len(joined) |->
                 IF isna(joined[r].name)
                 THEN [joined[r] EXCEPT !.name = parents[children[joined[r].child].nearest]]
                 ELSE joined[r]]

\* the loop body that leaves labels alone
AppendChildNoLabel(grp, group_id, child_id, label, style) ==
    LET old == IF group_id \in DOMAIN grp.groups THEN grp.groups[group_id] ELSE <<>>
    IN  [groups |-> (group_id :> Append(old, child_id)) @@ grp.groups,
         labels |-> grp.labels]

\* groups[group_id].append(child_id) and the label assignment after it.  The
\* Russia builder appends only a child the list does not hold yet; the
\* static-table builders assign the label every time, the others only when
\* the group has none.
AppendChild(grp, group_id, child_id, label, style) ==
    LET old == IF group_id \in DOMAIN grp.groups THEN grp.groups[group_id] ELSE <<>>
        new == IF style = "russia" /\ child_id \in Range(old)
               THEN old ELSE Append(old, child_id)
        lab == IF style # "table" /\ group_id \in DOMAIN grp.labels
               THEN grp.labels[group_id] ELSE label
    IN  [groups |-> (group_id :> new) @@ grp.groups,
         labels |-> (group_id :> lab) @@ grp.labels]

\* the loop over joined.iterrows(); a row is skipped
\* if not region or str(region).strip() == ""
RECURSIVE GroupRows(_, _, _, _, _)
GroupRows(joined, group_prefix, child_prefix, grp, style) ==
    IF joined = <<>> THEN grp
    ELSE LET region == Head(joined).name
         IN  IF region \in {NULL, <<>>} \/ Strip(PyStr(region)) = <<>>
             THEN GroupRows(Tail(joined), group_prefix, child_prefix, grp, style)
             ELSE GroupRows(Tail(joined), group_prefix, child_prefix,
                            AppendChild(grp, group_prefix \o slugify(region),
                                        child_prefix \o Head(joined).shapeID,
                                        PyStr(region), style),
                            style)

\* build_admin2_groups(adm2_path, adm1_path, iso_code, child_prefix)
build_admin2_groups(children, parents, nearestRaises, child_prefix) ==
    GroupRows(FillNearest(SJoinWithin(children, 1, parents), children, parents, nearestRaises),
              child_prefix \o <<"_">>, child_prefix \o <<"_","R","A","Y","_">>,
              [groups |-> <<>>, labels |-> <<>>], "admin2")

\* build_china_groups(adm2_path, adm1_path), the parent layer without a type
\* column
build_china_groups(children, parents, nearestRaises) ==
    GroupRows(FillNearest(SJoinWithin(children, 1, parents), children, parents, nearestRaises),
              <<"C","N","_">>, <<"C","N","_","C","I","T","Y","_">>,
              [groups |-> <<>>, labels |-> <<>>], "admin2")

\* build_russia_groups_hybrid(adm2_path, adm1_path): children are the ADM2
\* rows west of the Urals, east the parents east of them, whose child id is
\* "RU_" + name (a parent layer without id and iso columns)
build_russia_groups_hybrid(children, parents, nearestRaises, east) ==
    LET west == GroupRows(FillNearest(SJoinWithin(children, 1, parents), children,
                                      parents, nearestRaises),
                          <<"R","U","_">>, RU_PREFIX,
                          [groups |-> <<>>, labels |-> <<>>], "russia")
        east_idx == SelectSeq([k \in 1..Len(parents) |-> k], LAMBDA k : k \in east)
        adm1_east == [r \in 1..Len(east_idx) |->
                         [name |-> parents[east_idx[r]],
                          shapeID |-> RStrip(PyStr(parents[east_idx[r]]))]]
    IN  GroupRows(adm1_east, <<"R","U","_">>, <<"R","U","_">>, west, "russia")

\* POLAND_VOIVODESHIPS.get(voiv_code), for the first two codes of the table
POLAND_VOIVODESHIPS(voiv_code) ==
    IF voiv_code = <<"0","2">> THEN <<"L","o","w","e","r"," ","S","i","l","e","s","i","a","n">>
    ELSE IF voiv_code = <<"0","4">>
    THEN <<"K","u","y","a","v","i","a","n","-","P","o","m","e","r","a","n","i","a","n">>
    ELSE NULL

\* build_poland_groups(powiat_path): the loop over the terc codes of the rows
RECURSIVE build_poland_groups(_, _)
build_poland_groups(rows, grp) ==
    IF rows = <<>> THEN grp
    ELSE LET terc == PyStr(Head(rows))
             voiv_name == POLAND_VOIVODESHIPS(SubSeq(terc, 1, 2))
         IN  IF Len(terc) < 2 \/ voiv_name = NULL
             THEN build_poland_groups(Tail(rows), grp)
             ELSE build_poland_groups(Tail(rows),
                                      AppendChild(grp, <<"P","L","_">> \o slugify(voiv_name),
                                                  PL_PREFIX \o terc,
                                                  voiv_name \o <<" ","V","o","i","v","o","d","e",
                                                                  "s","h","i","p">>,
                                                  "table"))

\* build_france_groups(arr_path): the loop over the codes of the rows, with
\* the entries 02 and 04 of FR_DEPT_TO_REGION
RECURSIVE build_france_groups(_, _)
build_france_groups(rows, grp) ==
    IF rows = <<>> THEN grp
    ELSE LET code == PyStr(Head(rows))
             overseas == Len(code) >= 2 /\ code[1] = "9" /\ code[2] \in {"7", "8"}
             n == IF overseas THEN 3 ELSE 2
             derive_fr_dept == SubSeq(code, 1, IF Len(code) < n THEN Len(code) ELSE n)
             region == IF derive_fr_dept = <<"0","2">>
                       THEN <<"H","a","u","t","s","-","d","e","-","F","r","a","n","c","e">>
                       ELSE IF derive_fr_dept = <<"0","4">>
                       THEN <<"P","r","o","v","e","n","c","e","-","A","l","p","e","s","-",
                              "C","o","t","e"," ","d","'","A","z","u","r">>
                       ELSE NULL
         IN  IF region = NULL
             THEN build_france_groups(Tail(rows), grp)
             ELSE build_france_groups(Tail(rows),
                                      AppendChild(grp, <<"F","R","_">> \o slugify(region),
                                                  FR_PREFIX \o code,
                                                  region \o <<" ","R","e","g","i","o","n">>,
                                                  "table"))

-----------------------------------------------------------------------------
(* Inputs *)

\* what tp.Topology returns in a run of main(): both builds finite, the
\* quantized one with NaN, or both with NaN
MainTopoInputs ==
    {TopoIn("finite", AllOthersOk, q[1], q[2]) :
        q \in {<<"finite", "finite">>, <<"NaN", "finite">>, <<"NaN", "NaN">>}}

\* Subsequences of a candidate list with 1..n elements, order preserved
RECURSIVE SubSeqs(_, _)
SubSeqs(cands, n) ==
    IF cands = <<>> \/ n = 0 THEN {<<>>}
    ELSE SubSeqs(Tail(cands), n)
         \cup {<<Head(cands)>> \o t : t \in SubSeqs(Tail(cands), n - 1)}

\* Features of the hybrid layer before the replacements (NUTS-3 rows, the
\* Admin-1 extension, the Balkan fallback): distinct ids
BaseCandidates == <<
    Feature(<<"X","1">>, <<"A">>, S_PL, 20, {Part(1, 1200, FALSE)}),
    Feature(<<"Y","1">>, <<"B">>, S_DE, 10, {Part(2, 1200, FALSE), Part(3, 10, FALSE)}),
    Feature(<<"X","2">>, <<"C">>, <<"p","l">>, 21, {Part(4, 1200, FALSE)}),
    Feature(<<"R","U","E">>, <<"D">>, S_RU, 60, {Part(5, 1200, FALSE)}),
    Feature(<<"R","U","W">>, <<"E">>, S_RU, 59, {Part(6, 1200, FALSE)}),
    Feature(<<"M","T","1">>, <<"F">>, NULL, 14, {Part(7, 600, FALSE), Part(8, 3, TRUE)}),
    Feature(<<"K","_","1">>, NULL, <<" ">>, 21, {Part(9, 1200, FALSE)}),
    Feature(<<"N","9">>, <<"G">>, S_UNKNOWN, 33, {Part(10, 1200, FALSE)}),
    Feature(<<"C","1">>, <<"H">>, S_CN, 100, {Part(11, 1200, FALSE)}) >>

\* Political layers handed to build_topology called on its own: empty, with
\* a null/empty/invalid geometry (no parts), with a null code
TopoLayers ==
    LET a == Feature(<<"A","1">>, <<"A">>, S_FR, 2, {Part(1, 1200, FALSE)})
        b == Feature(<<"B","1">>, <<"B">>, S_DE, 10, {})
        c == Feature(<<"C","1">>, NULL, NULL, 14, {Part(2, 600, FALSE)})
    IN  {<<>>, <<a>>, <<b>>, <<a, b>>, <<b, a>>, <<c, a>>, <<a, c>>}

\* the bounds of the political layer, the states of the other candidates and
\* the texts of the two builds
TopoInputs ==
    LET others == {[n \in Range(OTHER_CANDIDATES) |->
                       CASE n = "special_zones" -> z
                         [] n = "ocean" -> o
                         [] n = "rivers" -> r
                         [] OTHER -> "ok"] :
                      z \in {"absent", "ok", "zero"}, o \in {"ok", "empty"},
                      r \in {"ok", "nonfinite"}}
        texts == {"finite", "NaN", "Infinity", "raises"}
    IN  {TopoIn(b, o, q, p) :
            b \in {"finite", "nonfinite", "zero"}, o \in others, q \in texts, p \in texts}

\* Inputs of a hierarchy builder.  Child rows: shapeIDs repeat, centroids lie
\* within no parent, one parent or two overlapping parents.  Parent layers
\* (never empty): names, a missing name, a blank name, two names with the
\* same slug.  Powiaty: terc codes.
HierInputs ==
    LET children == SubSeqs(<<Child(<<"1">>, {1}, 1), Child(<<"2">>, {}, 1),
                              Child(<<"2">>, {1, 2}, 2), Child(<<"1">>, {2}, 2),
                              Child(<<"3">>, {}, 2), Child(<<"3">>, {2}, 1)>>, MaxChildren)
        parents == { <<<<"N">>, <<"S">>>>, <<<<"N">>, NULL>>, <<<<"N">>, <<" ">>>>,
                     <<<<"N">>, <<"N",".">>>>, <<NULL, <<"S">>>> }
        powiaty == { <<>>, <<<<"0","2","0","1">>>>,
                     <<<<"0","2","0","1">>, <<"0","2","0","1">>>>,
                     <<<<"0","2","0","1">>, <<"0","4","0","1">>>>,
                     <<<<"9","9","0","1">>, <<"0">>>> }
    IN  [children : children, parents : parents, nearest_raises : BOOLEAN,
         east : {{}, {2}}, powiaty : powiaty,
         arrondissements : {<<>>, <<<<"0","2","1">>, <<"0","4","1">>, <<"9","7","1","1">>>>}]

PipelineBases == SubSeqs(BaseCandidates, MaxBase) \ {<<>>}

\* Layers handed to one replacement step called on its own: the pipeline
\* layers, the empty layer, and layers that already hold a replacement id
StepLayers ==
    PipelineBases
    \cup {<<>>}
    \cup {<<Feature(PL_PREFIX \o <<"0","2","0","1">>, <<"A">>, S_DE, 20, {Part(1, 1200, FALSE)})>>,
          <<Feature(FR_PREFIX \o <<"0","1">>, <<"A">>, NULL, 2, {Part(1, 1200, FALSE)}),
            Feature(<<"Y","1">>, <<"B">>, S_DE, 10, {Part(2, 1200, FALSE)})>>,
          <<Feature(CN_PREFIX \o <<"7">>, <<"A">>, <<"T","W">>, 120, {Part(1, 1200, FALSE)})>>}

NoFlags(rows) == Dataset(rows, TRUE, FALSE, 0)

FR_DATASETS ==
    LET fr01 == Row(<<"0","1">>, <<"A","i","n">>, 5, 46, 1, "ok", TRUE, {Part(21, 1200, FALSE)}, {})
        fr02 == Row(<<"0","2">>, <<"B">>, 3, 49, 1, "ok", TRUE,
                    {Part(22, 1200, FALSE), Part(23, 10, FALSE)}, {})
    IN  { NoFlags(<<>>), Dataset(<<fr01>>, FALSE, FALSE, 0),
          NoFlags(<<fr01>>), NoFlags(<<fr01, fr02>>) }

PL_DATASETS ==
    LET pl001 == Row(<<"0","2","0","1">>, <<"P">>, 19, 52, 1, "ok", TRUE, {Part(31, 1200, FALSE)}, {})
        pl001b == Row(<<"0","2","0","1">>, <<"Q">>, 18, 51, 1, "ok", TRUE, {Part(32, 600, FALSE)}, {})
        plBig == Row(<<"0","2","0","2">>, <<"R">>, 19, 52, 2, "ok", TRUE, {Part(33, 1200, FALSE)}, {})
        plInv == Row(<<"0","4","0","3">>, <<"S">>, 19, 52, 1, "invalid", TRUE, {Part(34, 1200, FALSE)}, {})
    IN  { NoFlags(<<>>), Dataset(<<pl001>>, FALSE, FALSE, 0),
          NoFlags(<<pl001>>), NoFlags(<<pl001, plBig>>), NoFlags(<<pl001, pl001b>>),
          NoFlags(<<pl001, plInv>>), Dataset(<<plInv>>, TRUE, TRUE, 0) }

CN_DATASETS ==
    LET cn7 == Row(<<"7">>, <<"A","s","h","i">>, 116, 40, 5, "ok", TRUE, {Part(41, 1200, FALSE)}, {})
        cnOut == Row(<<"8">>, <<"B">>, 110, 2, 5, "ok", FALSE, {Part(42, 1200, FALSE)}, {})
        cnBig == Row(<<"9">>, <<"C">>, 90, 40, 50, "ok", TRUE, {Part(43, 1200, FALSE)}, {})
        cnNull == Row(<<"6">>, <<"D">>, 90, 40, 0, "null", TRUE, {}, {})
    IN  { NoFlags(<<>>), Dataset(<<cn7>>, FALSE, FALSE, 0),
          NoFlags(<<cn7>>), NoFlags(<<cn7, cnOut>>), Dataset(<<cn7, cnOut>>, TRUE, FALSE, 2),
          NoFlags(<<cnOut>>), NoFlags(<<cnBig, cnNull>>) }

ruW == Row(<<"1">>, <<"W">>, 40, 55, 9, "ok", TRUE, {Part(51, 1200, FALSE)}, {})
ruE == Row(<<"2">>, <<"E">>, 60, 55, 9, "ok", TRUE, {Part(52, 1200, FALSE)}, {})

RUUA_DATASETS ==
    LET ruOut == Row(<<"3">>, <<"O">>, 59, 66, 9, "ok", FALSE, {Part(53, 1200, FALSE)}, {})
        ua1 == Row(<<"1">>, <<"U">>, 30, 50, 3, "ok", TRUE, {Part(54, 1200, FALSE)}, {})
    IN  [ru : { NoFlags(<<>>), Dataset(<<ruW>>, FALSE, FALSE, 0),
                NoFlags(<<ruW, ruE>>), NoFlags(<<ruW, ruOut>>),
                Dataset(<<ruW, ruOut>>, TRUE, FALSE, 1) },
         ua : { NoFlags(<<>>), Dataset(<<ua1>>, FALSE, FALSE, 0), NoFlags(<<ua1>>) }]

IN_DATASETS ==
    LET in1 == Row(<<"1">>, <<"I">>, 78, 22, 3, "ok", TRUE, {Part(61, 1200, FALSE)}, {})
        inIsl == Row(<<"2">>, <<"J">>, 93, 12, 1, "ok", TRUE, {Part(62, 600, FALSE)}, {})
        inOver == Row(<<"3">>, <<"K">>, 79, 33, 1, "ok", TRUE, {Part(63, 600, FALSE)}, {41})
    IN  { NoFlags(<<>>), Dataset(<<in1>>, FALSE, FALSE, 0),
          NoFlags(<<in1, inIsl>>), NoFlags(<<in1, inOver>>),
          Dataset(<<in1, inOver>>, TRUE, FALSE, 1) }

\* codes the borders layer can carry for the countries a point falls in
JoinMatches ==
    { <<>>, <<S_UNKNOWN>>, <<S_UNKNOWN, <<"X","K">>>>, <<<<"x","k">>>>,
      <<<<"C","N","-","T","W">>>>, <<<<" ">>>> }

\* Layers handed to smart_island_cull called on its own: one or two
\* features, which may share an id.  Parts are 3 km2 on a whitelist point,
\* 10 km2 or 600 km2.
CullPartKinds ==
    { [km2 |-> 3, vip |-> TRUE], [km2 |-> 10, vip |-> FALSE], [km2 |-> 600, vip |-> FALSE] }

CullGeoms(k) ==
    UNION { { {Part(10 * k + j, kinds[j].km2, kinds[j].vip) : j \in 1..n}
              : kinds \in {q \in [1..n -> CullPartKinds] :
                             \A j \in 1..(n - 1) : q[j].km2 <= q[j + 1].km2} }
            : n \in 1..MaxParts }

CullFeatures(k) ==
    { Feature(id, IF k = 1 THEN NULL ELSE <<"n", "A">>, IF k = 1 THEN S_DE ELSE S_PL, k, g)
        : id \in {<<"A">>, <<"B">>}, g \in CullGeoms(k) }

CullLayers ==
    {<<f>> : f \in CullFeatures(1)}
    \cup {<<f, g>> : f \in CullFeatures(1), g \in CullFeatures(2)}

Thresholds == {5, 500, 700}

\* main() builds hybrid with an "id" column and passes group_col="id"
GROUP_COL_PRESENT == TRUE

-----------------------------------------------------------------------------
(* main(): the replacement steps, the cull, the code cascade *)

NoRepl == [s \in {} |-> <<>>]

\* one replacement step: the call, its result, and where main() goes next
RunStep(name, ds, res, nextpc) ==
    /\ datasets' = IF pc = "call" THEN (name :> ds) @@ datasets ELSE datasets
    /\ main_gdf' = hybrid
    /\ step' = name
    /\ order' = Append(order, name)
    /\ outcome' = res.status
    /\ log' = log \cup res.log
    /\ repl' = (name :> res.repl) @@ repl
    /\ hybrid' = res.layer
    /\ pc' = IF res.status \in {"exit", "error"} THEN "fatal" ELSE nextpc
    /\ UNCHANGED <<arg, ret, labels, has_cntr_code, has_group_col, area_raises, vip_raises,
                   culled, final_hybrid, start, outVars, hier_in, groups>>

Init ==
    /\ pc = "france"
    /\ hybrid \in PipelineBases
    /\ main_gdf = <<>>
    /\ repl = NoRepl
    /\ step = "none"
    /\ outcome = "none"
    /\ has_cntr_code = TRUE
    /\ has_group_col = GROUP_COL_PRESENT
    /\ area_raises = FALSE
    /\ vip_raises = FALSE
    /\ culled = NoRepl
    /\ final_hybrid = <<>>
    /\ log = {}
    /\ order = <<>>
    /\ datasets = NoRepl
    /\ start = <<>>
    /\ NoOutput

FranceStep ==
    /\ pc = "france"
    /\ \E ds \in FR_DATASETS :
          RunStep("FR", ds, ApplyFrance(hybrid, has_cntr_code, ds), "russia_ukraine")

RussiaUkraineStep ==
    /\ pc = "russia_ukraine"
    /\ \E ds \in RUUA_DATASETS :
          RunStep("RUUA", ds, ApplyRussiaUkraine(hybrid, has_cntr_code, ds), "poland")

PolandStep ==
    /\ pc = "poland"
    /\ \E ds \in PL_DATASETS :
          RunStep("PL", ds, ApplyPoland(hybrid, has_cntr_code, ds), "china")

ChinaStep(nextpc) ==
    /\ pc = "china"
    /\ \E ds \in CN_DATASETS :
          RunStep("CN", ds, ApplyChina(hybrid, has_cntr_code, ds), nextpc)

MainChinaStep == ChinaStep("cull")

\* final_hybrid = smart_island_cull(hybrid, group_col="id", threshold_km2=1000.0)
CullStep ==
    /\ pc = "cull"
    /\ \E ar, vr \in BOOLEAN :
          /\ ~(ar /\ vr)
          /\ LET r == SmartIslandCull(hybrid, has_group_col, CULL_THRESHOLD, ar, vr)
             IN  /\ final_hybrid' = r.layer
                 /\ culled' = (CULL_THRESHOLD :> r.layer)
                 /\ log' = log \cup r.log
          /\ area_raises' = ar
          /\ vip_raises' = vr
    /\ pc' = "codes"
    /\ UNCHANGED <<arg, ret, labels, hybrid, main_gdf, repl, step, outcome, has_cntr_code,
                   has_group_col, order, callVars, outVars, hier_in, groups>>

\* the country-code cascade, then the hand-over to save_outputs/build_topology
CodesStep ==
    /\ pc = "codes"
    /\ \E hasIsoCol, joinRaises \in BOOLEAN :
       \E matches \in [Missing(CodesAfterIdRule(final_hybrid)) -> JoinMatches] :
          /\ final_hybrid' = ResolveCodes(final_hybrid, hasIsoCol, joinRaises, matches)
          /\ log' = log \cup ResolveLog(final_hybrid, hasIsoCol, joinRaises)
    /\ pc' = "save_outputs"
    /\ UNCHANGED <<arg, ret, labels, hybrid, main_gdf, repl, step, outcome, has_cntr_code,
                   has_group_col, area_raises, vip_raises, culled, order,
                   callVars, outVars, hier_in, groups>>

\* the variables of the stages before the outputs
stageVars == <<hybrid, main_gdf, repl, step, outcome, has_cntr_code,
               has_group_col, area_raises, vip_raises, culled, final_hybrid,
               order, callVars>>

\* save_outputs(...): the preview image is written; final_hybrid is only read
SaveOutputsStep ==
    /\ pc = "save_outputs"
    /\ files' = files \cup {"preview.png"}
    /\ pc' = "topology"
    /\ UNCHANGED <<arg, ret, labels, stageVars, log, political, topo_in, topo, hier_in, groups>>

\* build_topology called with the layer the replacements left, before the
\* cull and the code cascade
TopologyStepOnHybrid ==
    /\ pc = "topology"
    /\ \E tin \in MainTopoInputs :
          LET r == BuildTopology(hybrid, has_group_col, has_cntr_code, tin)
          IN  /\ political' = hybrid
              /\ topo_in' = tin
              /\ topo' = r
              /\ log' = log \cup r.log
              /\ files' = IF r.status = "ok"
                          THEN files \cup {"europe_topology.json"} ELSE files
              /\ pc' = IF r.status = "ok" THEN "hierarchy" ELSE "fatal"
    /\ UNCHANGED <<arg, ret, labels, stageVars, hier_in, groups>>

\* build_topology(political=final_hybrid, ...) in main()
TopologyStep ==
    /\ pc = "topology"
    /\ \E tin \in MainTopoInputs :
          LET r == BuildTopology(final_hybrid, has_group_col, has_cntr_code, tin)
          IN  /\ political' = final_hybrid
              /\ topo_in' = tin
              /\ topo' = r
              /\ log' = log \cup r.log
              /\ files' = IF r.status = "ok"
                          THEN files \cup {"europe_topology.json"} ELSE files
              /\ pc' = IF r.status = "ok" THEN "hierarchy" ELSE "fatal"
    /\ UNCHANGED <<arg, ret, labels, stageVars, hier_in, groups>>

\* generate_hierarchy.main(): SystemExit when a data file is missing
HierarchyStep ==
    /\ pc = "hierarchy"
    /\ \E missingData \in BOOLEAN :
          /\ files' = IF missingData THEN files ELSE files \cup {"hierarchy.json"}
          /\ pc' = IF missingData THEN "fatal" ELSE "locales"
    /\ UNCHANGED <<arg, ret, labels, stageVars, log, political, topo_in, topo, hier_in, groups>>

\* translate_manager.main(): the topology file exists, locales.json is written
LocalesStep ==
    /\ pc = "locales"
    /\ "europe_topology.json" \in files
    /\ files' = files \cup {"locales.json"}
    /\ pc' = "done"
    /\ UNCHANGED <<arg, ret, labels, stageVars, log, political, topo_in, topo, hier_in, groups>>

Next ==
    \/ FranceStep
    \/ RussiaUkraineStep
    \/ PolandStep
    \/ MainChinaStep
    \/ CullStep
    \/ CodesStep
    \/ SaveOutputsStep
    \/ TopologyStep
    \/ HierarchyStep
    \/ LocalesStep

Spec == Init /\ [][Next]_vars

-----------------------------------------------------------------------------
(* build_topology called on its own *)

InitTopology ==
    /\ pc = "call"
    /\ hybrid = <<>>
    /\ main_gdf = <<>>
    /\ repl = NoRepl
    /\ step = "none"
    /\ outcome = "none"
    /\ has_cntr_code \in BOOLEAN
    /\ has_group_col \in BOOLEAN
    /\ area_raises = FALSE
    /\ vip_raises = FALSE
    /\ culled = NoRepl
    /\ final_hybrid \in TopoLayers
    /\ log = {}
    /\ order = <<>>
    /\ datasets = NoRepl
    /\ start = <<>>
    /\ NoOutput

\* build_topology(political, ..., output_path, quantization)
BuildTopologyCall ==
    /\ pc = "call"
    /\ \E tin \in TopoInputs :
          LET r == BuildTopology(final_hybrid, has_group_col, has_cntr_code, tin)
          IN  /\ political' = final_hybrid
              /\ topo_in' = tin
              /\ topo' = r
              /\ log' = r.log
              /\ files' = IF r.status = "ok" THEN {"europe_topology.json"} ELSE {}
              /\ pc' = IF r.status = "ok" THEN "returned" ELSE "fatal"
    /\ UNCHANGED <<arg, ret, labels, stageVars, hier_in, groups>>

SpecTopology == InitTopology /\ [][BuildTopologyCall]_vars

-----------------------------------------------------------------------------
(* One hierarchy builder called on its own *)

InitHierarchy ==
    /\ pc = "call"
    /\ hybrid = <<>>
    /\ main_gdf = <<>>
    /\ repl = NoRepl
    /\ step = "none"
    /\ outcome = "none"
    /\ has_cntr_code = TRUE
    /\ has_group_col = GROUP_COL_PRESENT
    /\ area_raises = FALSE
    /\ vip_raises = FALSE
    /\ culled = NoRepl
    /\ final_hybrid = <<>>
    /\ log = {}
    /\ order = <<>>
    /\ datasets = NoRepl
    /\ start = <<>>
    /\ files = {}
    /\ political = <<>>
    /\ topo_in = TopoIn("finite", AllOthersOk, "finite", "finite")
    /\ topo = [status |-> "none", artifact |-> <<>>, attempts |-> <<>>, log |-> {}]
    /\ hier_in \in HierInputs
    /\ groups = <<>>
    /\ labels = <<>>
    /\ arg = <<>>
    /\ ret = <<>>

\* a builder returns its groups
ReturnGroups(name, grp) ==
    /\ pc = "call"
    /\ step' = name
    /\ groups' = grp.groups
    /\ labels' = grp.labels
    /\ pc' = "returned"
    /\ UNCHANGED <<arg, ret, hybrid, main_gdf, repl, outcome, has_cntr_code, has_group_col,
                   area_raises, vip_raises, culled, final_hybrid, log, order,
                   callVars, outVars, hier_in>>

\* build_admin2_groups(ua_path, adm1_path, "UA", "UA", ...)
CallAdmin2Groups ==
    ReturnGroups("admin2", build_admin2_groups(hier_in.children, hier_in.parents,
                                               hier_in.nearest_raises, S_UA))

CallChinaGroups ==
    ReturnGroups("china", build_china_groups(hier_in.children, hier_in.parents,
                                             hier_in.nearest_raises))

CallPolandGroups ==
    ReturnGroups("poland", build_poland_groups(hier_in.powiaty,
                                               [groups |-> <<>>, labels |-> <<>>]))

\* generate_hierarchy.main() with every data file present: the five builders
\* run, their results are merged with dict.update in the order cn, ru, ua,
\* pl, fr, and hierarchy.json is written
HierarchyMain ==
    /\ pc = "call"
    /\ LET empty == [groups |-> <<>>, labels |-> <<>>]
       IN  ret' = <<build_china_groups(hier_in.children, hier_in.parents,
                                       hier_in.nearest_raises),
                    build_russia_groups_hybrid(hier_in.children, hier_in.parents,
                                               hier_in.nearest_raises, hier_in.east),
                    build_admin2_groups(hier_in.children, hier_in.parents,
                                        hier_in.nearest_raises, S_UA),
                    build_poland_groups(hier_in.powiaty, empty),
                    build_france_groups(hier_in.arrondissements, empty)>>
    \* groups.update(source_groups); labels.update(source_labels)
    /\ groups' = ret'[5].groups @@ ret'[4].groups @@ ret'[3].groups
                  @@ ret'[2].groups @@ ret'[1].groups
    /\ labels' = ret'[5].labels @@ ret'[4].labels @@ ret'[3].labels
                  @@ ret'[2].labels @@ ret'[1].labels
    /\ step' = "main"
    /\ files' = files \cup {"hierarchy.json"}
    /\ log' = log \cup {"Wrote hierarchy.json"}
    /\ pc' = "returned"
    /\ UNCHANGED <<hybrid, main_gdf, repl, outcome, has_cntr_code, has_group_col,
                   area_raises, vip_raises, culled, final_hybrid, order, callVars,
                   political, topo_in, topo, hier_in, arg>>

NextHierarchy ==
    \/ CallAdmin2Groups
    \/ CallChinaGroups
    \/ CallPolandGroups
    \/ HierarchyMain

SpecHierarchy == InitHierarchy /\ [][NextHierarchy]_vars

-----------------------------------------------------------------------------
(* Helper functions called on their own: step names the function, arg is   *)
(* its argument, ret what it returned.                                     *)

InitCall ==
    /\ pc = "call"
    /\ hybrid = <<>>
    /\ main_gdf = <<>>
    /\ repl = NoRepl
    /\ outcome = "none"
    /\ has_cntr_code = TRUE
    /\ has_group_col = GROUP_COL_PRESENT
    /\ area_raises = FALSE
    /\ vip_raises = FALSE
    /\ culled = NoRepl
    /\ final_hybrid = <<>>
    /\ log = {}
    /\ order = <<>>
    /\ datasets = NoRepl
    /\ start = <<>>
    /\ files = {}
    /\ political = <<>>
    /\ topo_in = TopoIn("finite", AllOthersOk, "finite", "finite")
    /\ topo = [status |-> "none", artifact |-> <<>>, attempts |-> <<>>, log |-> {}]
    /\ hier_in = [children |-> <<>>, parents |-> <<>>, nearest_raises |-> FALSE,
                  east |-> {}, powiaty |-> <<>>, arrondissements |-> <<>>]
    /\ groups = <<>>
    /\ labels = <<>>
    /\ ret = <<>>
    /\ \/ /\ step = "extract_country_code"
          \* ids: None, and strings of upper-case letters, a lower-case
          \* letter, a digit and the underscore
          /\ arg \in {NULL} \cup UNION {[1..n -> {"A", "B", "b", "1", "_"}] : n \in 0..MaxIdLen}
       \/ /\ step \in {"clip_to_europe_bounds", "clip_to_land_bounds"}
          \* what each library call of the clip does: to_crs and make_valid
          \* return or raise, gpd.clip returns rows, returns nothing or raises
          /\ arg \in [module : IF step = "clip_to_europe_bounds"
                                THEN {"init_map_data", "map_builder.geo.utils"}
                                ELSE {"init_map_data"},
                       to_crs : {"ok", "raises"},
                       clip1 : {"ok", "empty", "raises"},
                       make_valid : {"ok", "raises"},
                       clip2 : {"ok", "empty", "raises"}]
       \/ /\ step = "fetch_or_load_geojson"
          \* the cache file exists (with a body this function wrote) or not;
          \* the URL and its fallbacks; whether gpd.read_file raises
          /\ arg \in [cache : {"absent", "json"},
                       url : {[host |-> h, path |-> "a"] : h \in {"raw", "github", "other"}},
                       fallback_urls : LET raw_a == [host |-> "raw", path |-> "a"]
                                           hub_a == [host |-> "github", path |-> "a"]
                                           web_b == [host |-> "other", path |-> "b"]
                                       IN  {<<>>, <<raw_a>>, <<web_b>>, <<hub_a, raw_a>>,
                                            <<web_b, web_b>>},
                       read : {"ok", "raises"}]

\* fetch_or_load_geojson: url, the fallbacks, then the mirrors of each of
\* them.  A URL is its host kind and path; _build_mirror_urls gives a
\* raw.githubusercontent.com URL a ghproxy and a jsdelivr mirror, a
\* github.com/.../raw/ URL a ghproxy, a raw.githubusercontent.com and a
\* jsdelivr mirror, and any other URL none.
fetch_sources(url, fallback_urls) ==
    LET sources == <<url>> \o fallback_urls
        mirror(h, u) == [host |-> h, path |-> u.path]
        _build_mirror_urls(u) ==
            CASE u.host = "raw" -> <<mirror("ghproxy/raw", u), mirror("jsdelivr", u)>>
              [] u.host = "github" -> <<mirror("ghproxy/github", u), mirror("raw", u),
                                        mirror("jsdelivr", u)>>
              [] OTHER -> <<>>
        extended[n \in 0..Len(sources)] ==
            IF n = 0 THEN sources ELSE extended[n - 1] \o _build_mirror_urls(sources[n])
    IN  extended[Len(sources)]

\* every source kept, repeated or not
unique_sources_keeps_all(sources) == sources

\* the seen/unique_sources loop: first occurrences, in order
unique_sources(sources) ==
    LET first == {i \in 1..Len(sources) : \A j \in 1..(i - 1) : sources[j] # sources[i]}
        pick[n \in 0..Len(sources)] ==
            IF n = 0 THEN <<>>
            ELSE IF n \in first THEN Append(pick[n - 1], sources[n]) ELSE pick[n - 1]
    IN  pick[Len(sources)]

\* the except branch of both clip functions: one repair, one more clip
RepairAndRetry(a, done) ==
    IF a.make_valid = "raises"
    THEN [status |-> "failed", calls |-> done \o <<"make_valid">>]
    ELSE [status |-> IF a.clip2 = "raises" THEN "failed" ELSE a.clip2,
          calls |-> done \o <<"make_valid", "clip">>]

\* clip_to_europe_bounds(gdf, label): the library calls made, in order, and
\* whether the clipped or the original frame is returned.  The copy in
\* map_builder.geo.utils reads cfg.MAP_BOUNDS, which config.py does not
\* define, before anything else.
clip_to_europe_bounds(a) ==
    LET first == IF a.to_crs = "raises" THEN <<"to_crs">> ELSE <<"to_crs", "clip">>
        raised == a.to_crs = "raises" \/ a.clip1 = "raises"
        retry == RepairAndRetry(a, first)
        outcome1 == IF raised THEN retry.status ELSE a.clip1
    IN  IF a.module = "map_builder.geo.utils"
        THEN [status |-> "error", calls |-> <<>>, log |-> {}]
        ELSE [status |-> IF outcome1 = "ok" THEN "clipped" ELSE "original",
              calls |-> IF raised THEN retry.calls ELSE first,
              log |-> (IF raised
                       THEN {"Europe clip failed, attempting to fix geometries..."}
                       ELSE {})
                      \cup (CASE outcome1 = "failed" -> {"Europe clip skipped"}
                              [] outcome1 = "empty" ->
                                   {"Europe clip produced empty result; keeping original."}
                              [] OTHER -> {})]

\* a clip_to_land_bounds that clips a third time when the retry raises
clip_to_land_bounds_third_clip(a) ==
    LET retry == RepairAndRetry(a, <<"to_crs", "clip">>)
    IN  IF a.to_crs = "raises"
        THEN [status |-> "error", calls |-> <<"to_crs">>, log |-> {}]
        ELSE IF a.clip1 # "raises"
        THEN [status |-> IF a.clip1 = "ok" THEN "clipped" ELSE "exit",
              calls |-> <<"to_crs", "clip">>,
              log |-> IF a.clip1 = "ok" THEN {} ELSE {"Clipped dataset is empty."}]
        ELSE [status |-> IF retry.status = "ok" THEN "clipped" ELSE "exit",
              calls |-> IF a.make_valid = "ok" /\ a.clip2 = "raises"
                        THEN retry.calls \o <<"clip">> ELSE retry.calls,
              log |-> {"Clip failed, attempting to fix geometries..."}
                      \cup (CASE retry.status = "failed" -> {"Failed to clip"}
                              [] retry.status = "empty" -> {"Clipped dataset is empty."}
                              [] OTHER -> {})]

\* clip_to_land_bounds(gdf, land, label): to_crs is outside the try
clip_to_land_bounds(a) ==
    LET retry == RepairAndRetry(a, <<"to_crs", "clip">>)
    IN  IF a.to_crs = "raises"
        THEN [status |-> "error", calls |-> <<"to_crs">>, log |-> {}]
        ELSE IF a.clip1 # "raises"
        THEN [status |-> IF a.clip1 = "ok" THEN "clipped" ELSE "exit",
              calls |-> <<"to_crs", "clip">>,
              log |-> IF a.clip1 = "ok" THEN {} ELSE {"Clipped dataset is empty."}]
        ELSE [status |-> IF retry.status = "ok" THEN "clipped" ELSE "exit",
              calls |-> retry.calls,
              log |-> {"Clip failed, attempting to fix geometries..."}
                      \cup (CASE retry.status = "failed" -> {"Failed to clip"}
                              [] retry.status = "empty" -> {"Clipped dataset is empty."}
                              [] OTHER -> {})]

\* extract_country_code(id_val)
CallExtractCountryCode ==
    /\ pc = "call"
    /\ step = "extract_country_code"
    /\ ret' = extract_country_code(arg)
    /\ pc' = "returned"
    /\ UNCHANGED <<stageVars, outVars, hier_in, groups, labels, arg, log>>

\* a clip function returns, raises or exits
ReturnClip(name, r) ==
    /\ pc = "call"
    /\ step = name
    /\ ret' = r
    /\ log' = r.log
    /\ pc' = IF r.status \in {"exit", "error"} THEN "fatal" ELSE "returned"
    /\ UNCHANGED <<stageVars, outVars, hier_in, groups, labels, arg>>

CallClipToEuropeBounds == ReturnClip("clip_to_europe_bounds", clip_to_europe_bounds(arg))

CallClipToLandBounds == ReturnClip("clip_to_land_bounds", clip_to_land_bounds(arg))

\* fetch_or_load_geojson up to the download loop: the cache file is read
\* when it exists, otherwise the source list is built
FetchBegin ==
    /\ pc = "call"
    /\ step = "fetch_or_load_geojson"
    /\ IF arg.cache # "absent"
       THEN /\ ret' = [cache |-> arg.cache, raw |-> <<>>, sources |-> <<>>, i |-> 0,
                       attempt |-> 0, requests |-> <<>>, last |-> "none"]
            /\ log' = {"[Cache] Loading from local file..."}
                       \cup (IF arg.read = "raises" THEN {"Failed to read cached file"} ELSE {})
            /\ pc' = IF arg.read = "raises" THEN "fatal" ELSE "returned"
       ELSE /\ ret' = [cache |-> "absent",
                       raw |-> fetch_sources(arg.url, arg.fallback_urls),
                       sources |-> unique_sources(fetch_sources(arg.url, arg.fallback_urls)),
                       i |-> 1, attempt |-> 1, requests |-> <<>>, last |-> "none"]
            /\ log' = {"[Download] Fetching from remote..."}
            /\ pc' = "download"
    /\ UNCHANGED <<stageVars, outVars, hier_in, groups, labels, arg>>

\* one requests.get of download_with_retries: the body is JSON, is not JSON,
\* or the request fails; after the first body that parsed the cache file is
\* written and read, after the last failure of the last source the run exits
FetchAttempt ==
    /\ pc = "download"
    /\ step = "fetch_or_load_geojson"
    /\ \E resp \in {"json", "not_json", "request_error"} :
          LET req == [source |-> ret.sources[ret.i], attempt |-> ret.attempt,
                      ok |-> resp = "json"]
              sent == [ret EXCEPT !.requests = Append(@, req), !.last = resp]
          IN  IF resp = "json"
              THEN /\ ret' = [sent EXCEPT !.cache = "json"]
                   /\ log' = log \cup (IF arg.read = "raises"
                                        THEN {"Failed to read downloaded file"} ELSE {})
                   /\ pc' = IF arg.read = "raises" THEN "fatal" ELSE "returned"
              ELSE /\ log' = log \cup {IF resp = "not_json"
                                        THEN "[ERROR] Downloaded data is not valid JSON"
                                        ELSE "[Download] attempt failed"}
                                  \cup (IF ret.attempt = 3 /\ ret.i = Len(ret.sources)
                                        THEN {"Failed to download from all sources."}
                                        ELSE {})
                   /\ ret' = IF ret.attempt < 3
                             THEN [sent EXCEPT !.attempt = @ + 1]
                             ELSE IF ret.i < Len(ret.sources)
                             THEN [sent EXCEPT !.i = @ + 1, !.attempt = 1]
                             ELSE sent
                   /\ pc' = IF ret.attempt = 3 /\ ret.i = Len(ret.sources)
                            THEN "fatal" ELSE "download"
    /\ UNCHANGED <<stageVars, outVars, hier_in, groups, labels, arg>>

NextCall ==
    \/ CallExtractCountryCode
    \/ CallClipToEuropeBounds
    \/ CallClipToLandBounds
    \/ FetchBegin
    \/ FetchAttempt

SpecCall == InitCall /\ [][NextCall]_vars

-----------------------------------------------------------------------------
(* A single-country replacement step called on its own layer *)

InitStep ==
    /\ pc = "call"
    /\ hybrid \in StepLayers
    /\ has_cntr_code \in BOOLEAN
    /\ has_group_col = GROUP_COL_PRESENT
    /\ main_gdf = <<>>
    /\ repl = NoRepl
    /\ step = "none"
    /\ outcome = "none"
    /\ area_raises = FALSE
    /\ vip_raises = FALSE
    /\ culled = NoRepl
    /\ final_hybrid = <<>>
    /\ log = {}
    /\ order = <<>>
    /\ datasets = NoRepl
    /\ start = <<>>
    /\ NoOutput

CallFrance ==
    /\ pc = "call"
    /\ \E ds \in FR_DATASETS :
          RunStep("FR", ds, ApplyFrance(hybrid, has_cntr_code, ds), "returned")

CallPoland ==
    /\ pc = "call"
    /\ \E ds \in PL_DATASETS :
          RunStep("PL", ds, ApplyPoland(hybrid, has_cntr_code, ds), "returned")

CallChina ==
    /\ pc = "call"
    /\ \E ds \in CN_DATASETS :
          RunStep("CN", ds, ApplyChina(hybrid, has_cntr_code, ds), "returned")

CallRussiaUkraine ==
    /\ pc = "call"
    /\ \E ds \in RUUA_DATASETS :
          RunStep("RUUA", ds, ApplyRussiaUkraine(hybrid, has_cntr_code, ds), "returned")

\* generate_hierarchy.build_poland_groups reading the powiaty file the
\* Poland step was given
PolandGroupsOfDataset ==
    /\ pc = "returned"
    /\ step = "PL"
    /\ LET rows == datasets["PL"].rows
           grp == build_poland_groups([i \in 1..Len(rows) |-> rows[i].key],
                                      [groups |-> <<>>, labels |-> <<>>])
       IN  groups' = grp.groups /\ labels' = grp.labels
    /\ pc' = "hierarchy"
    /\ UNCHANGED <<stageVars, outVars, log, hier_in, arg, ret>>

NextStep == CallFrance \/ CallPoland \/ CallChina \/ CallRussiaUkraine \/ PolandGroupsOfDataset

SpecStep == InitStep /\ [][NextStep]_vars

\* the country a single-country step replaces
TargetCode(s) == IF s = "FR" THEN S_FR ELSE IF s = "PL" THEN S_PL ELSE S_CN

\* rows of the step's argument whose upper-cased code differs from the target
Retained(s) ==
    {i \in 1..Len(main_gdf) : Upper(AsStr(main_gdf[i].cntr_code)) # TargetCode(s)}

-----------------------------------------------------------------------------
(* The France and the Poland step called one after the other on a layer, *)
(* in either order                                                        *)

InitCommute ==
    /\ pc = "call"
    /\ hybrid \in StepLayers
    /\ start = hybrid
    /\ NoOutput
    /\ has_cntr_code \in BOOLEAN
    /\ has_group_col = GROUP_COL_PRESENT
    /\ main_gdf = <<>>
    /\ repl = NoRepl
    /\ step = "none"
    /\ outcome = "none"
    /\ area_raises = FALSE
    /\ vip_raises = FALSE
    /\ culled = NoRepl
    /\ final_hybrid = <<>>
    /\ log = {}
    /\ order = <<>>
    /\ datasets = NoRepl

FrancePass ==
    /\ pc = "call"
    /\ "FR" \notin DOMAIN repl
    /\ \E ds \in FR_DATASETS :
          RunStep("FR", ds, ApplyFrance(hybrid, has_cntr_code, ds),
                  IF "PL" \in DOMAIN repl THEN "returned" ELSE "call")

PolandPass ==
    /\ pc = "call"
    /\ "PL" \notin DOMAIN repl
    /\ \E ds \in PL_DATASETS :
          RunStep("PL", ds, ApplyPoland(hybrid, has_cntr_code, ds),
                  IF "FR" \in DOMAIN repl THEN "returned" ELSE "call")

NextCommute == FrancePass \/ PolandPass

SpecCommute == InitCommute /\ [][NextCommute]_vars

\* a step ended the run
Fatal(res) == res.status \in {"exit", "error"}

\* France then Poland on a layer, with the datasets dsFR and dsPL
FranceThenPoland(layer, hasCol, dsFR, dsPL) ==
    LET first == ApplyFrance(layer, hasCol, dsFR)
    IN  IF Fatal(first) THEN first ELSE ApplyPoland(first.layer, hasCol, dsPL)

\* Poland then France on a layer, with the same datasets
PolandThenFrance(layer, hasCol, dsFR, dsPL) ==
    LET first == ApplyPoland(layer, hasCol, dsPL)
    IN  IF Fatal(first) THEN first ELSE ApplyFrance(first.layer, hasCol, dsFR)

-----------------------------------------------------------------------------
(* smart_island_cull called on its own layer, once per threshold *)

InitCull ==
    /\ pc = "cull_call"
    /\ hybrid \in CullLayers
    /\ has_group_col \in BOOLEAN
    /\ area_raises \in BOOLEAN
    /\ vip_raises \in BOOLEAN
    /\ ~(area_raises /\ vip_raises)
    /\ has_cntr_code = TRUE
    /\ main_gdf = <<>>
    /\ repl = NoRepl
    /\ step = "none"
    /\ outcome = "none"
    /\ culled = NoRepl
    /\ final_hybrid = <<>>
    /\ log = {}
    /\ order = <<>>
    /\ datasets = NoRepl
    /\ start = <<>>
    /\ NoOutput

CullCall ==
    /\ pc = "cull_call"
    /\ \E t \in Thresholds \ DOMAIN culled :
          LET r == SmartIslandCull(hybrid, has_group_col, t, area_raises, vip_raises)
          IN  /\ culled' = (t :> r.layer) @@ culled
              /\ log' = log \cup r.log
    /\ UNCHANGED <<arg, ret, labels, pc, hybrid, main_gdf, repl, step, outcome, has_cntr_code,
                   has_group_col, area_raises, vip_raises, final_hybrid, order,
                   callVars, outVars, hier_in, groups>>

SpecCull == InitCull /\ [][CullCall]_vars

\* the parts of the input features that carry the id
GroupParts(id) ==
    UNION {hybrid[i].parts : i \in {k \in 1..Len(hybrid) : hybrid[k].id = id}}

\* the largest parts of the group of the id
LargestParts(id) ==
    {p \in GroupParts(id) : \A q \in GroupParts(id) : q.km2 <= p.km2}

-----------------------------------------------------------------------------
(* The replacement passes with the South Asia step.  main() in             *)
(* init_map_data.py does not call apply_south_asia_replacement; its place, *)
(* directly after the China step, is taken from the documented step order. *)

OrderedChinaStep == ChinaStep("south_asia")

SouthAsiaStep ==
    /\ pc = "south_asia"
    /\ \E ds \in IN_DATASETS :
          RunStep("IN", ds, ApplySouthAsia(hybrid, has_cntr_code, ds), "replaced")

NextOrdered ==
    \/ FranceStep
    \/ RussiaUkraineStep
    \/ PolandStep
    \/ OrderedChinaStep
    \/ SouthAsiaStep

SpecOrdered == Init /\ [][NextOrdered]_vars

\* position of a step in the order of execution, 0 if it has not started
Pos(name) ==
    IF \E i \in 1..Len(order) : order[i] = name
    THEN CHOOSE i \in 1..Len(order) : order[i] = name
    ELSE 0

-----------------------------------------------------------------------------
(* Claims *)

\* C1: a France / Poland / China step applied to a non-empty layer with a
\* cntr_code column returns exactly the input features whose upper-cased
\* code differs from the target, each unchanged, plus every feature of the
\* normalised replacement dataset; so len(merged) = len(retained) + len(R).
C1_ReplacementMerge ==
    (pc = "returned" /\ step \in {"FR", "PL", "CN"} /\ main_gdf # <<>> /\ has_cntr_code)
    => /\ Len(hybrid) = Cardinality(Retained(step)) + Len(repl[step])
       /\ \A f \in Range(main_gdf) \cup Range(hybrid) \cup Range(repl[step]) :
             Count(hybrid, f)
                = Cardinality({i \in Retained(step) : main_gdf[i] = f})
                  + Count(repl[step], f)

\* C1 witness: base {X1:PL, Y1:DE} with R = [PL_POW_0201] gave {Y1, PL_POW_0201}
C1_Witness ==
    /\ pc = "returned" /\ step = "PL"
    /\ Len(main_gdf) = 2
    /\ main_gdf[1].id = <<"X","1">> /\ main_gdf[1].cntr_code = S_PL
    /\ main_gdf[2].id = <<"Y","1">> /\ main_gdf[2].cntr_code = S_DE
    /\ Len(repl["PL"]) = 1
    /\ Ids(repl["PL"]) = {PL_PREFIX \o <<"0","2","0","1">>}
    /\ Len(hybrid) = 2
    /\ Ids(hybrid) = {<<"Y","1">>, PL_PREFIX \o <<"0","2","0","1">>}

\* C2: a step never returns a layer after an id of the replacement dataset
\* collided with an id retained from the base layer (it fails instead).
C2_CollisionFailsLoudly ==
    (pc = "returned" /\ step \in {"FR", "PL", "CN"} /\ outcome = "ok")
    => ~ \E i \in Retained(step), j \in 1..Len(repl[step]) :
            main_gdf[i].id = repl[step][j].id

\* C3: after every replacement step of the pipeline that returned a layer,
\* no two features of the hybrid layer share an id.
C3_IdsUniqueAfterStep ==
    (step # "none" /\ outcome = "ok") => IdsUnique(hybrid)

C6_WhitelistAlwaysKept ==
    \A t \in DOMAIN culled :
        \A p \in PartsOf(hybrid) : p.vip => p \in PartsOf(culled[t])

\* C7: on a layer with the group column the cull returns one feature per
\* group id, whose geometry is the union of the parts that are the largest
\* of the group, on the whitelist, or at least as large as the threshold,
\* and whose attributes are those of a feature of the group.
C7_CullResult ==
    \A t \in DOMAIN culled :
        has_group_col =>
            /\ Ids(culled[t]) = Ids(hybrid)
            /\ IdsUnique(culled[t])
            /\ \A j \in 1..Len(culled[t]) :
                  /\ culled[t][j].parts
                        = {p \in GroupParts(culled[t][j].id) :
                              \/ p \in LargestParts(culled[t][j].id)
                              \/ p.vip
                              \/ p.km2 >= t}
                  /\ \E i \in 1..Len(hybrid) :
                        /\ hybrid[i].id = culled[t][j].id
                        /\ hybrid[i].name = culled[t][j].name
                        /\ hybrid[i].cntr_code = culled[t][j].cntr_code

\* C8 as stated: for every layer, raising the threshold never adds a part
\* to the output.
C8_MonotoneAnyLayer ==
    \A t1, t2 \in DOMAIN culled :
        t1 <= t2 => PartsOf(culled[t2]) \subseteq PartsOf(culled[t1])

\* C8: on a layer with the group column, the parts kept at a higher
\* threshold are a subset of the parts kept at a lower one, so the number of
\* kept parts never increases.
C8_MonotoneInThreshold ==
    has_group_col =>
        \A t1, t2 \in DOMAIN culled :
            t1 <= t2 =>
                /\ PartsOf(culled[t2]) \subseteq PartsOf(culled[t1])
                /\ Cardinality(PartsOf(culled[t2])) <= Cardinality(PartsOf(culled[t1]))

\* C8 witness: the same grouped layer culled at 5 and at 500 km2 lost a
\* part at the higher threshold only
C8_Witness ==
    /\ has_group_col /\ ~area_raises /\ ~vip_raises
    /\ {5, 500} \subseteq DOMAIN culled
    /\ PartsOf(culled[5]) = PartsOf(hybrid)
    /\ PartsOf(culled[500]) # PartsOf(culled[5])
    /\ PartsOf(culled[500]) \subseteq PartsOf(culled[5])

\* C9: no feature handed to the topology builder has a cntr_code that is the
\* empty string or whitespace only; a code is null or has a visible
\* character.
C9_NoBlankCode ==
    pc = "topology" =>
        \A i \in 1..Len(final_hybrid) :
            \/ final_hybrid[i].cntr_code = NULL
            \/ Strip(final_hybrid[i].cntr_code) # <<>>

\* C9 witness: the feature K_1 left the cull with the code " " and reaches
\* the topology builder with a null code
C9_Witness ==
    /\ pc = "topology"
    /\ \E i \in 1..Len(culled[CULL_THRESHOLD]) :
          /\ culled[CULL_THRESHOLD][i].id = <<"K","_","1">>
          /\ culled[CULL_THRESHOLD][i].cntr_code = <<" ">>
    /\ \E i \in 1..Len(final_hybrid) :
          /\ final_hybrid[i].id = <<"K","_","1">>
          /\ final_hybrid[i].cntr_code = NULL

\* C10: every non-null cntr_code handed to the topology builder is exactly
\* two uppercase letters.
C10_CodeIsTwoUpperLetters ==
    pc = "topology" =>
        \A i \in 1..Len(final_hybrid) :
            \/ final_hybrid[i].cntr_code = NULL
            \/ TwoUpperLetters(final_hybrid[i].cntr_code)

C12_FrancePolandCommute ==
    (pc = "returned" /\ DOMAIN repl = {"FR", "PL"})
    => LET a == FranceThenPoland(start, has_cntr_code, datasets["FR"], datasets["PL"])
           b == PolandThenFrance(start, has_cntr_code, datasets["FR"], datasets["PL"])
       IN  (~Fatal(a) /\ ~Fatal(b)) => Range(a.layer) = Range(b.layer)

\* C12: on a layer from which neither step alone returns an empty layer,
\* France then Poland and Poland then France, when both return a layer,
\* return the same set of features (ids, names, codes and geometries).
C12_CommuteOnNonEmptyLayers ==
    (pc = "returned" /\ DOMAIN repl = {"FR", "PL"})
    => LET dsFR == datasets["FR"]
           dsPL == datasets["PL"]
           a == FranceThenPoland(start, has_cntr_code, dsFR, dsPL)
           b == PolandThenFrance(start, has_cntr_code, dsFR, dsPL)
       IN  ( /\ ~Fatal(a) /\ ~Fatal(b)
             /\ ApplyFrance(start, has_cntr_code, dsFR).layer # <<>>
             /\ ApplyPoland(start, has_cntr_code, dsPL).layer # <<>> )
           => /\ Range(a.layer) = Range(b.layer)
              /\ Len(a.layer) = Len(b.layer)
              /\ Range(hybrid) = Range(a.layer)

\* C12 witness: Poland then France ran on {X1:PL, Y1:DE}, both merged rows,
\* and the layer is Y1 with the French and the Polish rows
C12_Witness ==
    /\ pc = "returned" /\ order = <<"PL", "FR">>
    /\ Ids(start) = {<<"X","1">>, <<"Y","1">>}
    /\ repl["FR"] # <<>> /\ repl["PL"] # <<>>
    /\ Range(hybrid) = {start[2]} \cup Range(repl["FR"]) \cup Range(repl["PL"])
    /\ Range(hybrid) = Range(FranceThenPoland(start, has_cntr_code,
                                              datasets["FR"], datasets["PL"]).layer)


\* C13: when a stage of main() has terminated with a fatal error, no output
\* artifact (preview image, topology file, hierarchy file, locales file) has
\* been written.
C13_NoArtifactAfterFatal ==
    pc = "fatal" => files = {}


\* C14: build_topology aborts, before it builds or writes anything, exactly
\* when the political layer is empty or has a non-finite or zero-extent
\* bounding box after pruning and scrubbing; every other candidate that fails
\* the validation is skipped with a diagnostic, and the topology built holds
\* exactly the candidates that passed, in candidate order, political first.
C14_PoliticalAbortsOthersSkipped ==
    (pc \in {"returned", "fatal"} /\ topo.status # "none")
    => LET scrubbed == SelectSeq(political, LAMBDA f : f.parts # {})
           invalid == scrubbed = <<>> \/ topo_in.bounds \in {"nonfinite", "zero"}
           cand == <<"political">> \o OTHER_CANDIDATES
           idx(n) == CHOOSE k \in 1..Len(cand) : cand[k] = n
           failed == {n \in Range(OTHER_CANDIDATES) :
                         topo_in.others[n] \in {"empty", "nonfinite", "zero"}}
           passed == {n \in Range(OTHER_CANDIDATES) : topo_in.others[n] = "ok"}
       IN  /\ (topo.status = "exit") <=> invalid
           /\ invalid => (files = {} /\ topo.artifact = <<>>
                          /\ "TopoJSON build failed with quantization; retrying without quantization" \notin log)
           /\ ~invalid => \A n \in failed : ("Skipping empty/invalid layer: " \o n) \in log
           /\ topo.status = "ok" =>
                 LET objects == topo.artifact[1].objects
                 IN  /\ objects[1] = "political"
                     /\ Range(objects) = {"political"} \cup passed
                     /\ \A i, j \in 1..Len(objects) : i < j => idx(objects[i]) < idx(objects[j])

\* a build with special_zones passed, the ocean layer skipped
C14_Witness ==
    /\ pc = "returned"
    /\ topo.status = "ok"
    /\ topo_in.others["ocean"] = "empty"
    /\ "Skipping empty/invalid layer: ocean" \in log
    /\ topo.artifact[1].objects
          = <<"political", "special_zones", "land", "urban", "physical", "rivers">>

\* C15: every topology artifact that build_topology writes holds only finite
\* numbers: neither NaN nor Infinity appears in a persisted file, whether it
\* came from the quantized or the unquantized build.
C15_ArtifactNumbersFinite ==
    "europe_topology.json" \in files => topo.artifact[1].numbers = "finite"

\* C22: build_topology calls the topology build at most twice: first with
\* quantization, then without it only if the first build raised or gave
\* non-finite output; when the second build also raises or is non-finite the
\* function raises and no file is written.
C22_AtMostTwoBuilds ==
    pc # "call"
    => /\ Len(topo.attempts) <= 2
       /\ Len(topo.attempts) >= 1 => topo.attempts[1] = "quantization"
       /\ Len(topo.attempts) = 2
          => /\ topo.attempts[2] = "False"
             /\ topo_in.quantized # "finite"
             /\ topo_in.plain # "finite" => topo.status = "error" /\ files = {}

\* C16: in every persisted topology artifact every geometry of the political
\* object carries an id and a cntr_code property; an artifact in which one
\* lacks either is never accepted as a successful build.
C16_PoliticalCarriesIdAndCode ==
    "europe_topology.json" \in files
    => /\ topo.status = "ok"
       /\ \A i \in 1..Len(topo.artifact[1].political) :
             {"id", "cntr_code"} \subseteq DOMAIN topo.artifact[1].political[i].props

\* C17: in main(), build_topology is invoked only after the four replacement
\* steps, the island cull and the country-code resolution have completed, and
\* the political layer it receives is the output of those stages: the culled
\* post-replacement layer with its codes resolved, not an earlier layer.
C17_TopologyAfterAllStages ==
    topo.status # "none"
    => LET noCode(layer) == [i \in 1..Len(layer) |-> [layer[i] EXCEPT !.cntr_code = NULL]]
       IN  /\ order = <<"FR", "RUUA", "PL", "CN">>
           /\ CULL_THRESHOLD \in DOMAIN culled
           /\ Ids(culled[CULL_THRESHOLD]) \subseteq Ids(hybrid)
           /\ noCode(political) = noCode(culled[CULL_THRESHOLD])
           /\ \A i \in 1..Len(political) :
                 \/ political[i].cntr_code = NULL
                 \/ political[i].cntr_code = FinalCode(political[i].cntr_code)
           /\ political = final_hybrid
           /\ "preview.png" \in files

\* the layer received differs from the layer the replacements left: a part
\* was culled and a blank code resolved
C17_Witness ==
    /\ topo.status = "ok"
    /\ political # hybrid
    /\ political # culled[CULL_THRESHOLD]
    /\ culled[CULL_THRESHOLD] # hybrid
    /\ political = final_hybrid


C23_CascadeStopsAtFirstCode ==
    (pc \in {"save_outputs", "topology", "hierarchy", "locales", "done"}
     \/ (pc = "fatal" /\ topo.status # "none"))
    => LET before == culled[CULL_THRESHOLD]
       IN  /\ Len(final_hybrid) = Len(before)
           /\ \A i \in 1..Len(before) :
                 LET carried == Strip(AsStr(FillNa(before[i].cntr_code)))
                     by_id == Strip(extract_country_code(before[i].id))
                 IN  IF carried # <<>>
                     THEN final_hybrid[i].cntr_code = carried
                     ELSE IF final_hybrid[i].cntr_code = NULL THEN by_id = <<>>
                     ELSE by_id # <<>> => final_hybrid[i].cntr_code = by_id

\* a run in which each rule acted: a replacement feature kept the code it
\* carried, MT1 took MT from its id, K_1 (blank code, no code in its id) took
\* XK from the join
C23_Witness ==
    /\ pc = "topology"
    /\ \E i \in 1..Len(final_hybrid) :
          /\ culled[CULL_THRESHOLD][i].cntr_code = S_FR
          /\ final_hybrid[i].cntr_code = S_FR
    /\ \E i \in 1..Len(final_hybrid) :
          /\ final_hybrid[i].id = <<"M","T","1">>
          /\ culled[CULL_THRESHOLD][i].cntr_code = NULL
          /\ final_hybrid[i].cntr_code = <<"M","T">>
    /\ \E i \in 1..Len(final_hybrid) :
          /\ final_hybrid[i].id = <<"K","_","1">>
          /\ final_hybrid[i].cntr_code = <<"X","K">>

\* C24: extract_country_code returns the first underscore-delimited token of
\* the id that is exactly two upper-case letters; if there is none, the first
\* two characters when they are two upper-case letters; otherwise the empty
\* string.  The result is always empty or two upper-case letters.
C24_ExtractCountryCode ==
    (pc = "returned" /\ step = "extract_country_code")
    => LET s == IF arg = NULL THEN <<"n","a","n">> ELSE arg
           IsLetter(c) == c \in Range(UpperAlphabet)
           \* a token of length two starts at p
           TokenAt(p) == /\ p + 1 <= Len(s)
                         /\ p = 1 \/ s[p - 1] = "_"
                         /\ p + 1 = Len(s) \/ s[p + 2] = "_"
                         /\ IsLetter(s[p]) /\ IsLetter(s[p + 1])
           toks == {p \in 1..Len(s) : TokenAt(p)}
           first == CHOOSE p \in toks : \A q \in toks : p <= q
       IN  /\ ret = IF toks # {} THEN <<s[first], s[first + 1]>>
                    ELSE IF Len(s) >= 2 /\ IsLetter(s[1]) /\ IsLetter(s[2])
                    THEN <<s[1], s[2]>>
                    ELSE <<>>
           /\ ret = <<>> \/ (Len(ret) = 2 /\ IsLetter(ret[1]) /\ IsLetter(ret[2]))

\* the id AAA_BB: its first two characters are upper-case letters, but the
\* token BB comes first in the cascade and is returned
C24_Witness ==
    /\ pc = "returned"
    /\ step = "extract_country_code"
    /\ arg = <<"A","A","A","_","B","B">>
    /\ ret = <<"B","B">>

C26_SecondFailureIsFatal ==
    (/\ pc # "call"
     /\ step \in {"clip_to_europe_bounds", "clip_to_land_bounds"}
     /\ Len(ret.calls) >= 2
     /\ arg.clip1 = "raises"
     /\ arg.make_valid = "raises" \/ arg.clip2 = "raises")
    => pc = "fatal" /\ ret.status \in {"exit", "error"}

\* C30: fetch_or_load_geojson makes no network request when the cache file
\* exists; otherwise it tries the de-duplicated sources in order, at most
\* three attempts each, and stops at the first success; the cache file is
\* written only from a successful response whose body parsed as JSON, so it
\* is absent or JSON-parsable; the run aborts when every source failed.
C30_FetchOrLoad ==
    (step = "fetch_or_load_geojson" /\ pc # "call")
    => LET reqs == ret.requests
           n == Len(reqs)
           \* position of the first occurrence of a source in the list built
           FirstPos(u) == CHOOSE i \in 1..Len(ret.raw) :
                             /\ ret.raw[i] = u
                             /\ \A j \in 1..(i - 1) : ret.raw[j] # u
           distinct == {ret.raw[i] : i \in 1..Len(ret.raw)}
           all_failed == /\ n = 3 * Cardinality(distinct)
                         /\ \A k \in 1..n : ~reqs[k].ok
       IN  /\ arg.cache # "absent" => n = 0 /\ ret.cache = arg.cache
           /\ \A k \in 1..n : reqs[k].source \in distinct /\ reqs[k].attempt \in 1..3
           /\ n >= 1 => reqs[1].attempt = 1 /\ FirstPos(reqs[1].source) = 1
           /\ \A k \in 1..(n - 1) :
                 /\ ~reqs[k].ok
                 /\ IF reqs[k].attempt < 3
                    THEN /\ reqs[k + 1].source = reqs[k].source
                         /\ reqs[k + 1].attempt = reqs[k].attempt + 1
                    ELSE /\ reqs[k + 1].attempt = 1
                         /\ FirstPos(reqs[k].source) < FirstPos(reqs[k + 1].source)
                         /\ \A u \in distinct :
                               ~(/\ FirstPos(reqs[k].source) < FirstPos(u)
                                 /\ FirstPos(u) < FirstPos(reqs[k + 1].source))
           /\ ret.cache \in {"absent", "json"}
           /\ (arg.cache = "absent" /\ ret.cache = "json")
              <=> (n >= 1 /\ reqs[n].ok /\ ret.last = "json")
           /\ ret.last \in {"not_json", "request_error"} => ret.cache = "absent"
           /\ (n >= 1 /\ reqs[n].ok) => pc \in {"returned", "fatal"}
           /\ (arg.cache = "absent" /\ all_failed) => pc = "fatal" /\ ret.cache = "absent"
           /\ pc = "fatal" => all_failed \/ arg.read = "raises"
           /\ pc = "download" => ~all_failed

\* the URL is a github.com raw URL whose raw.githubusercontent.com mirror is
\* also a fallback: the first source failed three times, the second failed
\* once and then answered with JSON, a body that was not JSON came earlier,
\* and the cache file was written
C30_Witness ==
    /\ step = "fetch_or_load_geojson"
    /\ pc = "returned"
    /\ arg.cache = "absent"
    /\ Len(ret.raw) > Len(ret.sources)
    /\ Len(ret.requests) = 5
    /\ ~ret.requests[4].ok
    /\ ret.requests[5].ok
    /\ "[ERROR] Downloaded data is not valid JSON" \in log
    /\ ret.requests[5].source # ret.requests[1].source
    /\ ret.cache = "json"

\* C27: whenever a best-effort step fails and the run continues with a
\* narrower result, a diagnostic naming what was skipped is printed before the
\* run continues; here: a hierarchy builder whose nearest-neighbour fallback
\* raised for children without a containing parent prints a diagnostic.
C27_DegradeIsReported ==
    (/\ pc = "returned"
     /\ step \in {"admin2", "china"}
     /\ hier_in.nearest_raises
     /\ \E i \in 1..Len(hier_in.children) : hier_in.children[i].within = {})
    => \E msg \in log : TRUE

\* C29: in the result of every hierarchy builder and in the merged hierarchy,
\* groups and labels have the same key set and every group's child list is
\* non-empty; merging the builders' results loses and overwrites no group,
\* because group ids of different countries never coincide.
C29_GroupsMatchLabels ==
    pc = "returned"
    => /\ DOMAIN groups = DOMAIN labels
       /\ \A g \in DOMAIN groups : groups[g] # <<>>
       /\ step = "main"
          => /\ \A n \in 1..Len(ret) :
                   /\ DOMAIN ret[n].groups = DOMAIN ret[n].labels
                   /\ \A g \in DOMAIN ret[n].groups :
                         /\ ret[n].groups[g] # <<>>
                         /\ g \in DOMAIN groups
                         /\ groups[g] = ret[n].groups[g]
                         /\ labels[g] = ret[n].labels[g]
             /\ \A m, n \in 1..Len(ret) :
                   m # n => DOMAIN ret[m].groups \cap DOMAIN ret[n].groups = {}
             /\ DOMAIN groups = UNION {DOMAIN ret[n].groups : n \in 1..Len(ret)}

\* a merged hierarchy to which each of the five builders contributed a
\* group, the Russia builder one with a child from the eastern ADM1 layer
C29_Witness ==
    /\ pc = "returned"
    /\ step = "main"
    /\ \A n \in 1..Len(ret) : DOMAIN ret[n].groups # {}
    /\ \E g \in DOMAIN groups : <<"R","U","_","S">> \in Range(groups[g])
    /\ "hierarchy.json" \in files

\* C28: every child id the hierarchy lists for a country is the id of a
\* feature the replacement step of that country inserts into the political
\* layer from the same dataset; here: every PL_POW_* id in the groups built
\* from a powiaty dataset is an id the Poland step inserted from it, never
\* one the step filtered out or did not create.
C28_HierarchyIdsWereInserted ==
    (pc = "hierarchy" /\ step = "PL")
    => \A g \in DOMAIN groups : Range(groups[g]) \subseteq Ids(repl["PL"])

\* C18: a spatial-join hierarchy builder run with a non-empty parent layer
\* puts the id of every child of the child layer in exactly one group's list:
\* no child is omitted, also not one whose point lies in no parent polygon.
C18_EveryChildInOneGroup ==
    (pc = "returned" /\ step \in {"admin2", "china"})
    => LET child_prefix == IF step = "china" THEN <<"C","N","_","C","I","T","Y","_">>
                           ELSE S_UA \o <<"_","R","A","Y","_">>
           groupsOf(id) == {g \in DOMAIN groups : id \in Range(groups[g])}
       IN  \A i \in 1..Len(hier_in.children) :
              Cardinality(groupsOf(child_prefix \o hier_in.children[i].shapeID)) = 1

\* C19: in the groups one country's hierarchy builder returns no child id
\* occurs in more than one group, overlapping parent polygons and repeated
\* child records included.
C19_NoChildInTwoGroups ==
    pc = "returned"
    => \A g, h \in DOMAIN groups : g # h => Range(groups[g]) \cap Range(groups[h]) = {}


=============================================================================
